---- MODULE Spec2Model ----
(***************************************************************************)
(* A model of the analytics core of PyStockAnalyzer: the max-profit scan   *)
(* (advanced_calculations.py), the scoring and ranking functions           *)
(* (compare_logic.py) and the indicator functions (calculations.py).       *)
(*                                                                         *)
(* Numbers.  A Python/NumPy float is modelled as an exact rational or one  *)
(* of the IEEE specials: a value is a record [k, n, d] whose kind k is     *)
(*   "num"   the rational n/d (d > 0, lowest terms),  "nzero"  IEEE -0.0,   *)
(*   "nan" / "pinf" / "ninf"   not-a-number and the two infinities,        *)
(*   "none"  Python None,  "missing"  an absent dict key,                  *)
(*   "str"   a string float() rejects,  "numstr"  a string float() parses  *)
(*           to n/d.                                                       *)
(* Binary rounding error of floats is outside the model.                   *)
(***************************************************************************)
EXTENDS Integers, Sequences, FiniteSets, TLC

\* ---------------------------------------------------------------- bounds
\* Longest price list given to calculate_max_profit, and its greatest price.
MaxLen == 4
MaxPrice == 3
\* Longest list of stock records given to choose_best_stock.
MaxStocks == 3
\* Longest Close series given to the indicator functions, its greatest
\* price, and the greatest window.
MaxSeries == 4
MaxClose == 3
MaxWindow == 3
MaxDays == 5
MaxLevel == 2
MaxDate == 2
MaxPoints == 1
MaxRuns == 2
MaxTickers == 2
MaxCalls == 3

VARIABLES
    \* calculate_max_profit (advanced_calculations.py)
    prices, i, max_profit, mp_pc, mp_ret,
    \* score_stock (compare_logic.py)
    result, ss_pc, ss_ret,
    \* choose_best_stock (compare_logic.py)
    all_results, cb_given, cb_i, best_stock, highest_score, cb_pc, cb_ret,
    \* calculate_sma / calculate_rsi / calculate_bollinger_bands (calculations.py)
    close, window, num_std, sma_out, rsi_out, bb_out,
    \* calculate_daily_returns / identify_runs / identify_run_periods (calculations.py)
    df, returns_out, runs_out, periods_out,
    \* PortfolioAnalyzer (portfolio_analyzer.py)
    stocks, weights, pa_pc, ld_i, pa_out, pa_log,
    \* repeated indicator calls on one price series (calculations.py, advanced_calculations.py)
    pu_given, pu_df, pu_window, pu_first, pu_last,
    \* StockAnalyzerGUI (gui.py)
    analyze_btn, status_var, ticker_var, sma_var, threads, after_queue, results_text, chart, accesses,
    \* do_compare_logic (compare_logic.py)
    tickers, sma_window, cmp_i, all_results_list, all_charts, cmp_pc, cmp_ret,
    \* ConfigManager (config.py)
    default_config, config, objs, config_file, cfg_calls, cfg_start, cfg_last, cfg_ret

profitVars == <<prices, i, max_profit, mp_pc, mp_ret>>
scoreVars  == <<result, ss_pc, ss_ret>>
chooseVars == <<all_results, cb_given, cb_i, best_stock, highest_score, cb_pc, cb_ret>>
indVars    == <<close, window, num_std, sma_out, rsi_out, bb_out>>
seriesVars == <<df, returns_out, runs_out, periods_out>>
portfolioVars == <<stocks, weights, pa_pc, ld_i, pa_out, pa_log>>
pureVars == <<pu_given, pu_df, pu_window, pu_first, pu_last>>
guiVars == <<analyze_btn, status_var, ticker_var, sma_var, threads, after_queue, results_text, chart, accesses>>
compareVars == <<tickers, sma_window, cmp_i, all_results_list, all_charts, cmp_pc, cmp_ret>>
configVars == <<default_config, config, objs, config_file, cfg_calls, cfg_start, cfg_last, cfg_ret>>
vars ==
    <<profitVars,
      scoreVars,
      chooseVars,
      indVars,
      seriesVars,
      portfolioVars,
      pureVars,
      guiVars,
      compareVars,
      configVars>>

\* ------------------------------------------------------- exact arithmetic
Abs(x) == IF x < 0 THEN -x ELSE x

Max(a, b) == IF a >= b THEN a ELSE b

Sign(x) == IF x > 0 THEN 1 ELSE IF x < 0 THEN -1 ELSE 0

RECURSIVE GCD(_, _)
GCD(a, b) == IF b = 0 THEN a ELSE GCD(b, a % b)

\* The rational n/d (d # 0) in lowest terms with a positive denominator.
F(n, d) ==
    LET g == GCD(Abs(n), Abs(d))
        s == IF d < 0 THEN -1 ELSE 1
    IN  [k |-> "num", n |-> s * (n \div g), d |-> s * (d \div g)]

Num(x) == [k |-> "num", n |-> x, d |-> 1]
NaN    == [k |-> "nan", n |-> 0, d |-> 1]
PInf   == [k |-> "pinf", n |-> 0, d |-> 1]
NInf   == [k |-> "ninf", n |-> 0, d |-> 1]
PyNone == [k |-> "none", n |-> 0, d |-> 1]
Missing == [k |-> "missing", n |-> 0, d |-> 1]
Str    == [k |-> "str", n |-> 0, d |-> 1]
NumStr(x) == [k |-> "numstr", n |-> x, d |-> 1]

NZero  == [k |-> "nzero", n |-> 0, d |-> 1]

IsNaN(a) == a.k = "nan"
IsFin(a) == a.k \in {"num", "nzero"}
\* the finite value with the sign of a zero dropped
Val(a) == IF a.k = "nzero" THEN Num(0) ELSE a
IsZero(a) == IsFin(a) /\ Val(a).n = 0
\* the IEEE sign bit
SignBit(a) == a.k \in {"nzero", "ninf"} \/ (a.k = "num" /\ a.n < 0)
Zero(neg) == IF neg THEN NZero ELSE Num(0)
Inf(neg) == IF neg THEN NInf ELSE PInf

\* IEEE-754 arithmetic on floats (kinds num, nzero, nan, pinf, ninf).
FNeg(a) ==
    CASE a.k = "num"   -> IF a.n = 0 THEN NZero ELSE F(-a.n, a.d)
      [] a.k = "nzero" -> Num(0)
      [] a.k = "pinf"  -> NInf
      [] a.k = "ninf"  -> PInf
      [] OTHER         -> NaN

FAdd(a, b) ==
    CASE a.k = "nan" \/ b.k = "nan" -> NaN
      [] a.k = "nzero" /\ b.k = "nzero" -> NZero
      [] IsFin(a) /\ IsFin(b) ->
           LET g == GCD(Val(a).d, Val(b).d)
           IN  F(Val(a).n * (Val(b).d \div g) + Val(b).n * (Val(a).d \div g),
                 (Val(a).d \div g) * Val(b).d)
      [] IsFin(a) -> b
      [] IsFin(b) -> a
      [] a.k = b.k -> a
      [] OTHER -> NaN

FSub(a, b) == FAdd(a, FNeg(b))

FMul(a, b) ==
    LET neg == SignBit(a) # SignBit(b)
    IN  CASE a.k = "nan" \/ b.k = "nan" -> NaN
          [] IsFin(a) /\ IsFin(b) ->
               IF IsZero(a) \/ IsZero(b) THEN Zero(neg)
               ELSE LET g1 == GCD(Abs(a.n), b.d)
                        g2 == GCD(Abs(b.n), a.d)
                    IN  F((a.n \div g1) * (b.n \div g2),
                          (a.d \div g2) * (b.d \div g1))
          [] IsZero(a) \/ IsZero(b) -> NaN
          [] OTHER -> Inf(neg)

\* Element-wise float division as NumPy does it: x/0 is an infinity or NaN,
\* never an exception.
FDiv(a, b) ==
    LET neg == SignBit(a) # SignBit(b)
    IN  CASE a.k = "nan" \/ b.k = "nan" -> NaN
          [] IsFin(a) /\ IsFin(b) ->
               IF IsZero(b) THEN (IF IsZero(a) THEN NaN ELSE Inf(neg))
               ELSE IF IsZero(a) THEN Zero(neg)
               ELSE LET g1 == GCD(Abs(a.n), Abs(b.n))
                        g2 == GCD(a.d, b.d)
                    IN  F((a.n \div g1) * (b.d \div g2),
                          (a.d \div g2) * (b.n \div g1))
          [] IsFin(a) -> Zero(neg)
          [] IsFin(b) -> Inf(neg)
          [] OTHER -> NaN

\* Comparisons: every comparison with NaN is false, -0.0 equals 0.0.
FLt(a, b) ==
    CASE a.k = "nan" \/ b.k = "nan" -> FALSE
      [] IsFin(a) /\ IsFin(b) -> Val(a).n * Val(b).d < Val(b).n * Val(a).d
      [] a.k = "ninf" -> b.k # "ninf"
      [] b.k = "pinf" -> a.k # "pinf"
      [] OTHER -> FALSE

FGt(a, b) == FLt(b, a)
FEq(a, b) == a.k # "nan" /\ b.k # "nan" /\ Val(a) = Val(b)
FLe(a, b) == FLt(a, b) \/ FEq(a, b)
FGe(a, b) == FLe(b, a)

\* Python round(x, 2): to the nearest hundredth, exact halves to the even
\* hundredth, the sign kept; NaN and the infinities are returned as they are.
Round2(a) ==
    IF a.k # "num" THEN a
    ELSE LET t == 200 * a.n
             q == (t + a.d) \div (2 * a.d)      \* floor(100 x + 1/2)
             half == (t + a.d) % (2 * a.d) = 0  \* 100 x is exactly q - 1/2
             r == IF half /\ q % 2 # 0 THEN q - 1 ELSE q
         IN  IF r = 0 THEN Zero(a.n < 0) ELSE F(r, 100)

\* ================================================================
\* advanced_calculations.py : calculate_max_profit
\* ================================================================
PriceLists == UNION {[1..n -> 1..MaxPrice] : n \in 0..MaxLen}

\* The loop body, lines 38-39, for the 0-based index j (prices[j] is p[j+1]).
MaxProfitBodyNoGuard(p, j, acc) == acc + p[j + 1] - p[j]

MaxProfitBodySingleBest(p, j, acc) == Max(acc, p[j + 1] - p[j])

MaxProfitBody(p, j, acc) ==
    IF p[j + 1] > p[j] THEN acc + p[j + 1] - p[j] ELSE acc

InitProfit ==
    /\ prices \in PriceLists
    /\ i = 0
    /\ max_profit = 0
    /\ mp_pc = "call"
    /\ mp_ret = -1

IdleProfit ==
    /\ prices = <<>>
    /\ i = 0
    /\ max_profit = 0
    /\ mp_pc = "idle"
    /\ mp_ret = -1

ProfitFrame == UNCHANGED <<scoreVars, chooseVars, indVars, seriesVars,
                           portfolioVars, pureVars, guiVars, compareVars, configVars>>

\* line 33 and the first evaluation of range(1, len(prices))
MaxProfitEnter ==
    /\ mp_pc = "call"
    /\ max_profit' = 0
    /\ i' = 1
    /\ mp_pc' = "loop"
    /\ UNCHANGED <<prices, mp_ret>>
    /\ ProfitFrame

\* one iteration of the for loop, lines 36-39
MaxProfitIter ==
    /\ mp_pc = "loop"
    /\ i < Len(prices)
    /\ max_profit' = MaxProfitBody(prices, i, max_profit)
    /\ i' = i + 1
    /\ UNCHANGED <<prices, mp_pc, mp_ret>>
    /\ ProfitFrame

\* the range is exhausted: line 41
MaxProfitReturn ==
    /\ mp_pc = "loop"
    /\ i >= Len(prices)
    /\ mp_ret' = max_profit
    /\ mp_pc' = "done"
    /\ UNCHANGED <<prices, i, max_profit>>
    /\ ProfitFrame

NextProfit == MaxProfitEnter \/ MaxProfitIter \/ MaxProfitReturn

\* ---- properties of calculate_max_profit
RECURSIVE SumGains(_, _)
\* sum over k = 2..n of max(p[k] - p[k-1], 0)
SumGains(p, n) ==
    IF n <= 1 THEN 0 ELSE SumGains(p, n - 1) + Max(p[n] - p[n - 1], 0)

NonIncreasing(p) == \A k \in 2..Len(p) : p[k] <= p[k - 1]

\* C1: calculate_max_profit(p) returns the sum over consecutive days of
\* max(p[i] - p[i-1], 0); hence 0 for the empty list, for a one-element list
\* and for every non-increasing list.
C1_MaxProfitIsSumOfGains ==
    mp_pc = "done" =>
        /\ mp_ret = SumGains(prices, Len(prices))
        /\ (Len(prices) <= 1 => mp_ret = 0)
        /\ (NonIncreasing(prices) => mp_ret = 0)

\* a returned profit for a list that both rises and falls
C1_Witness ==
    /\ mp_pc = "done"
    /\ mp_ret > 0
    /\ \E k \in 2..Len(prices) : prices[k] < prices[k - 1]
    /\ \E k \in 2..Len(prices) : prices[k] > prices[k - 1]

\* Trading plans: sets of (buy day, sell day) pairs, buy before sell, no two
\* pairs holding a share over the same day-to-day interval.
Trades(n) == {t \in (1..n) \X (1..n) : t[1] < t[2]}

Plans(n) ==
    {P \in SUBSET Trades(n) :
        \A x, y \in P : x # y => (x[2] <= y[1] \/ y[2] <= x[1])}

RECURSIVE PlanProfit(_, _)
PlanProfit(p, P) ==
    IF P = {} THEN 0
    ELSE LET t == CHOOSE x \in P : TRUE
         IN  p[t[2]] - p[t[1]] + PlanProfit(p, P \ {t})

\* C2: the returned value is the greatest total profit of any plan of
\* non-overlapping buy/sell pairs: no plan earns more, some plan earns it.
C2_MaxProfitIsOptimal ==
    mp_pc = "done" =>
        /\ \A P \in Plans(Len(prices)) : PlanProfit(prices, P) <= mp_ret
        /\ \E P \in Plans(Len(prices)) : PlanProfit(prices, P) = mp_ret

\* a list whose optimum needs two transactions
C2_Witness ==
    /\ mp_pc = "done"
    /\ \A t \in Trades(Len(prices)) : prices[t[2]] - prices[t[1]] < mp_ret
    /\ mp_ret > 0

\* ================================================================
\* compare_logic.py : score_stock
\* ================================================================
\* A stock record is a dict; here a record whose every field holds a value,
\* an absent key being the value Missing (rsi_status: the empty string).
\* dict.get(key): None for an absent key.
DictGet(v) == IF v.k = "missing" THEN PyNone ELSE v

\* safe_float, lines 201-206: float(val), None on TypeError / ValueError.
safe_float(val) ==
    CASE val.k \in {"none", "str"} -> PyNone
      [] val.k = "numstr" -> F(val.n, val.d)
      [] OTHER -> val

\* component 1, lines 210-215
TotalChangeTermGe(score, r) ==
    LET total_change == safe_float(DictGet(r.total_change))
    IN  IF total_change # PyNone
        THEN LET s == FAdd(score, FMul(total_change, Num(3)))
             IN  IF FGe(total_change, Num(20)) THEN FAdd(s, Num(10)) ELSE s
        ELSE score

TotalChangeTerm(score, r) ==
    LET total_change == safe_float(DictGet(r.total_change))
    IN  IF total_change # PyNone
        THEN LET s == FAdd(score, FMul(total_change, Num(3)))
             IN  IF FGt(total_change, Num(20)) THEN FAdd(s, Num(10)) ELSE s
        ELSE score

\* component 2, lines 219-224
VolatilityTerm(score, r) ==
    LET volatility == safe_float(DictGet(r.volatility))
    IN  IF volatility # PyNone
        THEN LET s == FSub(score, FMul(volatility, Num(2)))
             IN  IF FGt(volatility, Num(5)) THEN FSub(s, Num(5)) ELSE s
        ELSE score

\* component 3, lines 228-230
MaxProfitTerm(score, r) ==
    LET mp == safe_float(DictGet(r.max_profit))
    IN  IF mp # PyNone THEN FAdd(score, FMul(mp, Num(2))) ELSE score

\* component 4, lines 234-240
StatusTerm(score, r) ==
    CASE r.rsi_status = "Neutral"    -> FAdd(score, Num(10))
      [] r.rsi_status = "Oversold"   -> FAdd(score, Num(5))
      [] r.rsi_status = "Overbought" -> FSub(score, Num(10))
      [] OTHER -> score

\* component 5, lines 244-246
RangeTerm(score, r) ==
    LET rsi_current == safe_float(DictGet(r.rsi_current))
    IN  IF rsi_current # PyNone /\ FLe(Num(30), rsi_current)
                                /\ FLe(rsi_current, Num(70))
        THEN FAdd(score, Num(5))
        ELSE score

\* score_stock, lines 199-248
score_stock(r) ==
    RangeTerm(StatusTerm(MaxProfitTerm(VolatilityTerm(
        TotalChangeTerm(Num(0), r), r), r), r), r)

Rec(t, tc, vol, mp, st, rsi, sc) ==
    [ticker |-> t, current_price |-> Num(100), total_change |-> tc,
     volatility |-> vol, max_profit |-> mp, rsi_status |-> st,
     rsi_current |-> rsi, score |-> sc]

\* Inputs of score_stock: every combination of these field values.
TotalChangeVals ==
    {Missing, PyNone, Str, NaN, NumStr(21), Num(-5), Num(20), Num(21), F(41, 2)}
VolatilityVals == {Missing, PyNone, Str, NaN, Num(5), Num(6), F(3, 2)}
MaxProfitVals == {Missing, PyNone, NaN, Num(0), Num(7)}
StatusVals == {"Neutral", "Oversold", "Overbought", "Hold", ""}
RsiVals ==
    {Missing, PyNone, Str, NaN, Num(29), Num(30), Num(50), Num(70), Num(71),
     F(2999, 100)}

ScoreInputs ==
    {Rec("T", tc, vol, mp, st, rsi, Missing) :
        tc \in TotalChangeVals, vol \in VolatilityVals, mp \in MaxProfitVals,
        st \in StatusVals, rsi \in RsiVals}

InitScore ==
    /\ result \in ScoreInputs
    /\ ss_pc = "call"
    /\ ss_ret = PyNone

IdleScore ==
    /\ result = Rec("T", Missing, Missing, Missing, "", Missing, Missing)
    /\ ss_pc = "idle"
    /\ ss_ret = PyNone

ScoreStockCall ==
    /\ ss_pc = "call"
    /\ ss_ret' = score_stock(result)
    /\ ss_pc' = "done"
    /\ UNCHANGED result
    /\ UNCHANGED <<profitVars, chooseVars, indVars, seriesVars,
                   portfolioVars, pureVars, guiVars, compareVars, configVars>>

NextScore == ScoreStockCall

\* ---- properties of score_stock
Metrics(r) == <<r.total_change, r.volatility, r.max_profit, r.rsi_current>>

AllNumeric(r) == \A m \in 1..4 : Metrics(r)[m].k = "num"

\* exact rational arithmetic on (numerator, denominator) pairs, for the
\* closed formula
QAdd(a, b) == <<a[1] * b[2] + b[1] * a[2], a[2] * b[2]>>
QInt(x) == <<x, 1>>
QScale(c, a) == <<c * a[1], a[2]>>
QOf(v) == <<v.n, v.d>>
QGt(a, c) == a[1] > c * a[2]
QGe(a, c) == a[1] >= c * a[2]
QLe(a, c) == a[1] <= c * a[2]
QSame(v, a) == v.k = "num" /\ v.n * a[2] = a[1] * v.d

StatusBonus(st) ==
    IF st = "Neutral" THEN 10
    ELSE IF st = "Oversold" THEN 5
    ELSE IF st = "Overbought" THEN -10
    ELSE 0

\* The closed formula over the metrics that are present: tc, vol, mp, rsi are
\* (numerator, denominator) pairs, has[m] tells whether metric m counts.
Formula(has, tc, vol, mp, st, rsi) ==
    LET t1 == IF has[1]
              THEN QAdd(QScale(3, tc), QInt(IF QGt(tc, 20) THEN 10 ELSE 0))
              ELSE QInt(0)
        t2 == IF has[2]
              THEN QAdd(QScale(-2, vol), QInt(IF QGt(vol, 5) THEN -5 ELSE 0))
              ELSE QInt(0)
        t3 == IF has[3] THEN QScale(2, mp) ELSE QInt(0)
        t5 == IF has[4] /\ QGe(rsi, 30) /\ QLe(rsi, 70) THEN 5 ELSE 0
    IN  QAdd(QAdd(QAdd(t1, t2), t3), QInt(StatusBonus(st) + t5))

\* C6: for a record whose metrics are all present and numeric, score_stock
\* returns 3*total_change + (10 if total_change > 20) - 2*volatility
\* - (5 if volatility > 5) + 2*max_profit + statusBonus
\* + (5 if 30 <= rsi_current <= 70).
C6_ScoreFormula ==
    (ss_pc = "done" /\ AllNumeric(result)) =>
        QSame(ss_ret,
              Formula(<<TRUE, TRUE, TRUE, TRUE>>, QOf(result.total_change),
                      QOf(result.volatility), QOf(result.max_profit),
                      result.rsi_status, QOf(result.rsi_current)))

\* a scored record at the threshold total_change = 20 with an RSI on the
\* inclusive bound 70
C6_Witness ==
    /\ ss_pc = "done"
    /\ AllNumeric(result)
    /\ result.total_change = Num(20)
    /\ result.volatility = Num(6)
    /\ result.rsi_current = Num(70)
    /\ result.rsi_status = "Overbought"
    /\ ss_ret = Num(60 - 12 - 5 + 14 - 10 + 5)

\* a metric counts unless it is missing, None, a non-numeric string or NaN
Counts(v) == v.k \notin {"missing", "none", "str", "nan"}

\* C7: every metric is independently optional: a missing, None, non-numeric
\* or not-a-number field contributes 0 and the result is the formula over the
\* remaining fields.
C7_AbsentMetricContributesZero ==
    (ss_pc = "done" /\ \A m \in 1..4 : Metrics(result)[m].k # "numstr") =>
        QSame(ss_ret,
              Formula([m \in 1..4 |-> Counts(Metrics(result)[m])],
                      QOf(result.total_change), QOf(result.volatility),
                      QOf(result.max_profit), result.rsi_status,
                      QOf(result.rsi_current)))

\* ================================================================
\* compare_logic.py : choose_best_stock
\* ================================================================
\* best_stock and the returned value refer to a record of the list: they are
\* modelled as its position (1-based), 0 standing for None.

\* line 297: result["score"] = round(stock_score, 2)
AttachScoreFreshDict(r, stock_score) ==
    [ticker |-> r.ticker, current_price |-> Missing, total_change |-> Missing,
     volatility |-> Missing, max_profit |-> Missing, rsi_status |-> "",
     rsi_current |-> Missing, score |-> Round2(stock_score)]

AttachScore(r, stock_score) == [r EXCEPT !.score = Round2(stock_score)]

\* Records given to choose_best_stock: distinct and equal scores, a record
\* scored before, and the record do_compare_logic builds from a two-row price
\* history (volatility = std of a single return = NaN).
ChooseRecords ==
    {Rec("A", Num(1), Num(1), Num(0), "Neutral", Num(50), Missing),
     Rec("B", Num(0), Num(1), Num(0), "Neutral", Num(50), Missing),
     Rec("C", PyNone, Num(1), Num(0), "Neutral", Num(50), Missing),
     Rec("D", Num(1), NaN, Num(0), "Neutral", NaN, Missing),
     Rec("E", Num(2), Num(1), Num(0), "Overbought", Num(71), Missing),
     Rec("G", Num(1), F(1, 3), Num(0), "Neutral", Num(50), Num(99))}

InitChoose ==
    /\ all_results \in UNION {[1..n -> ChooseRecords] : n \in 0..MaxStocks}
    /\ cb_given = all_results
    /\ cb_i = 0
    /\ best_stock = 0
    /\ highest_score = NInf
    /\ cb_pc = "call"
    /\ cb_ret = 0

IdleChoose ==
    /\ all_results = <<>>
    /\ cb_given = <<>>
    /\ cb_i = 0
    /\ best_stock = 0
    /\ highest_score = NInf
    /\ cb_pc = "idle"
    /\ cb_ret = 0

ChooseFrame == UNCHANGED <<profitVars, scoreVars, indVars, seriesVars,
                           portfolioVars, pureVars, guiVars, compareVars, configVars>>

\* lines 286-287: an empty list returns None
ChooseReturnNone ==
    /\ cb_pc = "call"
    /\ all_results = <<>>
    /\ cb_ret' = 0
    /\ cb_pc' = "done"
    /\ UNCHANGED <<all_results, cb_given, cb_i, best_stock, highest_score>>
    /\ ChooseFrame

\* lines 289-290
ChooseEnter ==
    /\ cb_pc = "call"
    /\ all_results # <<>>
    /\ best_stock' = 0
    /\ highest_score' = NInf
    /\ cb_i' = 0
    /\ cb_pc' = "loop"
    /\ UNCHANGED <<all_results, cb_given, cb_ret>>
    /\ ChooseFrame

\* line 302: the test that replaces the current best
Beats(stock_score, highest) == FGt(stock_score, highest)

\* one iteration of the for loop, lines 295-304, for the record at the
\* 0-based position cb_i
ChooseIter ==
    /\ cb_pc = "loop"
    /\ cb_i < Len(all_results)
    /\ LET r == all_results[cb_i + 1]
           stock_score == score_stock(r)
       IN  /\ all_results' =
                 [all_results EXCEPT ![cb_i + 1] = AttachScore(r, stock_score)]
           /\ IF Beats(stock_score, highest_score)
              THEN /\ highest_score' = stock_score
                   /\ best_stock' = cb_i + 1
              ELSE UNCHANGED <<highest_score, best_stock>>
    /\ cb_i' = cb_i + 1
    /\ UNCHANGED <<cb_given, cb_pc, cb_ret>>
    /\ ChooseFrame

\* lines 306-309
ChooseReturn ==
    /\ cb_pc = "loop"
    /\ cb_i >= Len(all_results)
    /\ cb_ret' = best_stock
    /\ cb_pc' = "done"
    /\ UNCHANGED <<all_results, cb_given, cb_i, best_stock, highest_score>>
    /\ ChooseFrame

NextChoose == ChooseReturnNone \/ ChooseEnter \/ ChooseIter \/ ChooseReturn

\* ---- properties of choose_best_stock
ScoreOf(k) == score_stock(cb_given[k])

\* C3: for a non-empty list the returned record has the greatest score of the
\* list, and of the records with that score it is the first in input order.
C3_ReturnsFirstGreatest ==
    (cb_pc = "done" /\ cb_given # <<>>) =>
        /\ cb_ret \in 1..Len(cb_given)
        /\ \A k \in 1..Len(cb_given) : FGe(ScoreOf(cb_ret), ScoreOf(k))
        /\ \A k \in 1..(cb_ret - 1) : FLt(ScoreOf(k), ScoreOf(cb_ret))

\* C4: None is returned exactly for the empty list; a non-empty list yields
\* one of its own records, and [a] yields a with its score attached.
C4_NoneIffEmpty ==
    cb_pc = "done" =>
        /\ (cb_ret = 0) <=> (cb_given = <<>>)
        /\ cb_ret \in 0..Len(cb_given)
        /\ Len(cb_given) = 1 =>
              (cb_ret = 1 /\ all_results[1].score # Missing)

\* C5: the only effect on the input list is the 'score' attached to every
\* record: same length, same order, every other key as given.
C5_OnlyScoreAttached ==
    /\ Len(all_results) = Len(cb_given)
    /\ \A k \in 1..Len(all_results) :
          /\ [all_results[k] EXCEPT !.score = Missing]
                = [cb_given[k] EXCEPT !.score = Missing]
          /\ all_results[k].score # cb_given[k].score
                => all_results[k].score = Round2(ScoreOf(k))
          /\ cb_pc = "done" => all_results[k].score = Round2(ScoreOf(k))

\* a finished call on three records whose winner is the first one (scored
\* before, its old score replaced), the later records scored all the same
C5_Witness ==
    /\ cb_pc = "done"
    /\ Len(all_results) = 3
    /\ cb_ret = 1
    /\ cb_given[1].score = Num(99)
    /\ all_results[1].score = F(1733, 100)
    /\ all_results[2].score = Num(16)
    /\ cb_given[3].score = Missing
    /\ all_results[3].score = Num(13)

\* ================================================================
\* calculations.py : calculate_sma, calculate_rsi, calculate_bollinger_bands
\* ================================================================
\* A pandas Series is a sequence of floats, NaN where undefined.  A call
\* returns [st |-> "ok", ...] with its series, or [st |-> "raised"] when
\* pandas raises ValueError.
AllNaN(n) == [t \in 1..n |-> NaN]

\* df['Close'] as floats
CloseOf(c) == [t \in 1..Len(c) |-> Num(c[t])]

RECURSIVE SumTo(_, _, _)
\* x[a] + ... + x[b] of an integer sequence
SumTo(x, a, b) == IF a > b THEN 0 ELSE x[b] + SumTo(x, a, b - 1)

RECURSIVE SumSqTo(_, _, _)
SumSqTo(x, a, b) == IF a > b THEN 0 ELSE x[b] * x[b] + SumSqTo(x, a, b - 1)

\* Series.rolling(window=w).mean(): min_periods = w, so entry t (1-based) is
\* defined once w observations are in the window; an empty window gives NaN.
RollingMeanAtMinPeriodsOne(c, w, t) ==
    IF w = 0 THEN NaN
    ELSE LET a == Max(1, t - w + 1)
         IN  FDiv(Num(SumTo(c, a, t)), Num(t - a + 1))

RollingMeanAt(c, w, t) ==
    IF w = 0 \/ t < w THEN NaN ELSE FDiv(Num(SumTo(c, t - w + 1, t)), Num(w))

\* Series.rolling(window=w).std(): sample standard deviation (ddof = 1), NaN
\* for fewer than two observations.  The square root is kept symbolic: a
\* defined entry is [k |-> "sqrt", n, d], the root of the variance n/d.
RollingStdAt(c, w, t) ==
    IF w < 2 \/ t < w THEN NaN
    ELSE LET s1 == SumTo(c, t - w + 1, t)
             s2 == SumSqTo(c, t - w + 1, t)
             v == F(w * s2 - s1 * s1, w * (w - 1))
         IN  [k |-> "sqrt", n |-> v.n, d |-> v.d]

\* calculate_sma, lines 36-37; rolling() raises ValueError for window < 0
calculate_sma(c, w) ==
    IF w < 0 THEN [st |-> "raised", s |-> <<>>]
    ELSE [st |-> "ok", s |-> [t \in 1..Len(c) |-> RollingMeanAt(c, w, t)]]

\* Series.diff()
Diff(x) == [t \in 1..Len(x) |-> IF t = 1 THEN NaN ELSE FSub(x[t], x[t - 1])]

\* line 211: delta.where(delta > 0, 0)
GainOf(delta) ==
    [t \in 1..Len(delta) |->
        IF FGt(delta[t], Num(0)) THEN delta[t] ELSE Num(0)]

\* line 212: -delta.where(delta < 0, 0)
LossOfNotNegated(delta) ==
    [t \in 1..Len(delta) |->
        IF FLt(delta[t], Num(0)) THEN delta[t] ELSE Num(0)]

LossOf(delta) ==
    [t \in 1..Len(delta) |->
        FNeg(IF FLt(delta[t], Num(0)) THEN delta[t] ELSE Num(0))]

RECURSIVE EwmAt(_, _, _)
\* Series.ewm(span=w, adjust=False).mean(): alpha = 2/(w+1), y[1] = x[1],
\* y[t] = (1 - alpha) y[t-1] + alpha x[t]
EwmAt(x, w, t) ==
    IF t = 1 THEN x[1]
    ELSE FAdd(FMul(F(w - 1, w + 1), EwmAt(x, w, t - 1)),
              FMul(F(2, w + 1), x[t]))

avg_gain(c, w, t) == EwmAt(GainOf(Diff(CloseOf(c))), w, t)

avg_loss(c, w, t) == EwmAt(LossOf(Diff(CloseOf(c))), w, t)

\* lines 219-220
RsiAt(c, w, t) ==
    LET rs == FDiv(avg_gain(c, w, t), avg_loss(c, w, t))
    IN  FSub(Num(100), FDiv(Num(100), FAdd(Num(1), rs)))

\* line 204: the insufficient-data test
InsufficientForRsiOffByOne(n, w) == n < w

InsufficientForRsi(n, w) == n < w + 1

\* calculate_rsi, lines 204-222; ewm() raises ValueError for span < 1
calculate_rsi(c, w) ==
    IF InsufficientForRsi(Len(c), w) THEN [st |-> "ok", s |-> AllNaN(Len(c))]
    ELSE IF w < 1 THEN [st |-> "raised", s |-> <<>>]
    ELSE [st |-> "ok", s |-> [t \in 1..Len(c) |-> RsiAt(c, w, t)]]

\* lines 268-269: sma + std * num_std and sma - std * num_std, the entry
\* m + coef * sqrt(n/d) kept as [k |-> "band", m, coef, n, d]
BandAtNegated(m, sd, coef) ==
    IF m.k = "nan" \/ sd.k = "nan" THEN NaN
    ELSE [k |-> "band", m |-> m, coef |-> -coef, n |-> sd.n, d |-> sd.d]

BandAt(m, sd, coef) ==
    IF m.k = "nan" \/ sd.k = "nan" THEN NaN
    ELSE [k |-> "band", m |-> m, coef |-> coef, n |-> sd.n, d |-> sd.d]

\* calculate_bollinger_bands, lines 257-271
calculate_bollinger_bands(c, w, ns) ==
    IF Len(c) < w
    THEN [st |-> "ok", upper |-> AllNaN(Len(c)), middle |-> AllNaN(Len(c)),
          lower |-> AllNaN(Len(c))]
    ELSE IF w < 0
    THEN [st |-> "raised", upper |-> <<>>, middle |-> <<>>, lower |-> <<>>]
    ELSE [st |-> "ok",
          upper |-> [t \in 1..Len(c) |->
                        BandAt(RollingMeanAt(c, w, t), RollingStdAt(c, w, t), ns)],
          middle |-> [t \in 1..Len(c) |-> RollingMeanAt(c, w, t)],
          lower |-> [t \in 1..Len(c) |->
                        BandAt(RollingMeanAt(c, w, t), RollingStdAt(c, w, t), -ns)]]

Pending == [st |-> "pending"]

\* the first seven closes of the test data
TestCloses == <<10, 12, 15, 13, 16, 18, 17>>

CloseSeries ==
    UNION {[1..n -> 1..MaxClose] : n \in 0..MaxSeries} \cup {TestCloses}

NumStdVals == {0, 2}

InitInd ==
    /\ close \in CloseSeries
    /\ window \in -1..MaxWindow
    /\ num_std \in NumStdVals
    /\ sma_out = Pending
    /\ rsi_out = Pending
    /\ bb_out = Pending

IdleInd ==
    /\ close = <<>>
    /\ window = 0
    /\ num_std = 0
    /\ sma_out = Pending
    /\ rsi_out = Pending
    /\ bb_out = Pending

IndFrame == UNCHANGED <<profitVars, scoreVars, chooseVars, seriesVars,
                        portfolioVars, pureVars, guiVars, compareVars, configVars>>

CalculateSma ==
    /\ sma_out = Pending
    /\ sma_out' = calculate_sma(close, window)
    /\ UNCHANGED <<close, window, num_std, rsi_out, bb_out>>
    /\ IndFrame

CalculateRsi ==
    /\ rsi_out = Pending
    /\ rsi_out' = calculate_rsi(close, window)
    /\ UNCHANGED <<close, window, num_std, sma_out, bb_out>>
    /\ IndFrame

CalculateBollingerBands ==
    /\ bb_out = Pending
    /\ bb_out' = calculate_bollinger_bands(close, window, num_std)
    /\ UNCHANGED <<close, window, num_std, sma_out, rsi_out>>
    /\ IndFrame

NextInd == CalculateSma \/ CalculateRsi \/ CalculateBollingerBands

\* ---- properties of the indicator functions
Returned(out) == out.st = "ok"

EnoughForRsi == Returned(rsi_out) /\ Len(close) >= window + 1 /\ window >= 1

\* C8: with enough data, RSI is 100 where the average loss is 0 and the
\* average gain positive, 50 where both averages are 0, and no entry is the
\* raw division-by-zero result (NaN or an infinity).
C8_RsiZeroDivisionPolicy ==
    EnoughForRsi =>
        \A t \in 1..Len(close) :
            LET g == avg_gain(close, window, t)
                l == avg_loss(close, window, t)
            IN  /\ (IsZero(l) /\ FGt(g, Num(0))) => rsi_out.s[t] = Num(100)
                /\ (IsZero(l) /\ IsZero(g)) => rsi_out.s[t] = Num(50)
                /\ IsFin(rsi_out.s[t])

\* C9: a series shorter than the window (window + 1 for RSI) makes
\* calculate_rsi, calculate_bollinger_bands and calculate_sma return, without
\* raising, series of the input's length whose every entry is undefined.
Undefined(s) == Len(s) = Len(close) /\ \A t \in 1..Len(s) : IsNaN(s[t])

C9_ShortSeriesAllUndefined ==
    /\ (rsi_out # Pending /\ Len(close) < window + 1) =>
          (Returned(rsi_out) /\ Undefined(rsi_out.s))
    /\ (bb_out # Pending /\ Len(close) < window) =>
          (/\ Returned(bb_out)
           /\ Undefined(bb_out.upper)
           /\ Undefined(bb_out.middle)
           /\ Undefined(bb_out.lower))
    /\ (sma_out # Pending /\ Len(close) < window) =>
          (Returned(sma_out) /\ Undefined(sma_out.s))

\* all three functions have returned for a two-point series and window 3
C9_Witness ==
    /\ Len(close) = 2
    /\ close[1] # close[2]
    /\ window = 3
    /\ Returned(rsi_out) /\ Undefined(rsi_out.s)
    /\ Returned(bb_out) /\ Undefined(bb_out.lower)
    /\ Returned(sma_out) /\ Undefined(sma_out.s)

\* C10: every defined entry of the series calculate_rsi returns lies in the
\* closed interval [0, 100].
C10_RsiBounded ==
    Returned(rsi_out) =>
        \A t \in 1..Len(rsi_out.s) :
            ~IsNaN(rsi_out.s[t]) =>
                /\ FLe(Num(0), rsi_out.s[t])
                /\ FLe(rsi_out.s[t], Num(100))

\* a returned RSI series with an entry strictly inside the interval, one equal
\* to 100 and an undefined one
C10_Witness ==
    /\ Returned(rsi_out)
    /\ \E t \in 1..Len(rsi_out.s) :
          FLt(Num(0), rsi_out.s[t]) /\ FLt(rsi_out.s[t], Num(100))
    /\ \E t \in 1..Len(rsi_out.s) : rsi_out.s[t] = Num(100)
    /\ \E t \in 1..Len(rsi_out.s) : IsNaN(rsi_out.s[t])

\* The sign of b - x for a band entry b = m + coef * sqrt(n/d) and a finite
\* x: with A = m - x and B = coef * sqrt(n/d), the sign of A + B is that of
\* the term of larger magnitude, compared through the squares.
BandCmp(b, x) ==
    LET e == FSub(b.m, x)
        sA == Sign(Val(e).n)
        sB == IF b.n = 0 THEN 0 ELSE Sign(b.coef)
        a2 == Val(e).n * Val(e).n * b.d
        b2 == b.coef * b.coef * b.n * Val(e).d * Val(e).d
    IN  IF sA = 0 THEN sB
        ELSE IF sB = 0 \/ sA = sB THEN sA
        ELSE IF a2 > b2 THEN sA
        ELSE IF a2 < b2 THEN sB
        ELSE 0

AllDefinedAt(t) ==
    /\ ~IsNaN(bb_out.upper[t])
    /\ ~IsNaN(bb_out.middle[t])
    /\ ~IsNaN(bb_out.lower[t])

\* C11: for num_std >= 0, at every index where the three series returned by
\* calculate_bollinger_bands are all defined, upper >= middle >= lower.
C11_BandsOrdered ==
    (Returned(bb_out) /\ num_std >= 0) =>
        \A t \in 1..Len(bb_out.middle) :
            AllDefinedAt(t) =>
                /\ BandCmp(bb_out.upper[t], bb_out.middle[t]) >= 0
                /\ BandCmp(bb_out.lower[t], bb_out.middle[t]) <= 0

\* returned bands with an index where the three are defined and strictly
\* apart, and one where they coincide (zero deviation in the window)
C11_Witness ==
    /\ Returned(bb_out)
    /\ num_std > 0
    /\ \E t \in 1..Len(bb_out.middle) :
          /\ AllDefinedAt(t)
          /\ BandCmp(bb_out.upper[t], bb_out.middle[t]) = 1
          /\ BandCmp(bb_out.lower[t], bb_out.middle[t]) = -1
    /\ \E t \in 1..Len(bb_out.middle) :
          /\ AllDefinedAt(t)
          /\ BandCmp(bb_out.upper[t], bb_out.middle[t]) = 0

RECURSIVE SumFrom(_, _, _)
\* c[a] + ... + c[b], added from the left
SumFrom(c, a, b) == IF a > b THEN 0 ELSE c[a] + SumFrom(c, a + 1, b)

\* C12: for window w >= 1, calculate_sma returns a series aligned with the
\* input whose entry i (0-based) is undefined for i < w - 1 and the arithmetic
\* mean of Close[i-w+1 .. i] for i >= w - 1; window 3 over the test closes
\* gives _, _, 12.33, 13.33, 14.67, 15.67, 17.00 at two decimals.
C12_SmaIsWindowMean ==
    (sma_out # Pending /\ window >= 1) =>
        /\ Returned(sma_out)
        /\ Len(sma_out.s) = Len(close)
        /\ \A t \in 1..Len(close) :
              IF t - 1 < window - 1 THEN IsNaN(sma_out.s[t])
              ELSE /\ IsFin(sma_out.s[t])
                   /\ FMul(sma_out.s[t], Num(window))
                        = Num(SumFrom(close, t - window + 1, t))
        /\ (close = TestCloses /\ window = 3) =>
              [t \in 3..7 |-> Round2(sma_out.s[t])]
                 = [t \in 3..7 |->
                      F(<<0, 0, 1233, 1333, 1467, 1567, 1700>>[t], 100)]

\* calculate_sma has returned for the test closes and window 3
C12_Witness ==
    /\ Returned(sma_out)
    /\ close = TestCloses
    /\ window = 3
    /\ IsNaN(sma_out.s[2])
    /\ sma_out.s[3] = F(37, 3)
    /\ sma_out.s[7] = Num(17)

\* C13: calculate_sma does not raise when window <= 0 or the series is empty:
\* it returns a series of the input's length whose every entry is undefined.
C13_SmaNonPositiveWindowOrEmpty ==
    (sma_out # Pending /\ (window <= 0 \/ Len(close) = 0)) =>
        (Returned(sma_out) /\ Undefined(sma_out.s))

\* ================================================================
\* calculations.py : calculate_daily_returns, identify_runs,
\*                   identify_run_periods
\* ================================================================
\* df['Close'] is a sequence of integer closes; the index label of a row is
\* its position, 1 for the first day.

\* Series.pct_change(): x / x.shift(1) - 1, undefined for the first entry
pct_changeOverCurrent(x) ==
    [t \in 1..Len(x) |->
        IF t = 1 THEN NaN ELSE FSub(FDiv(x[t - 1], x[t]), Num(1))]

pct_change(x) ==
    [t \in 1..Len(x) |->
        IF t = 1 THEN NaN ELSE FSub(FDiv(x[t], x[t - 1]), Num(1))]

\* calculate_daily_returns, lines 173-174
calculate_daily_returns(c) == [st |-> "ok", s |-> pct_change(CloseOf(c))]

\* np.sign of a float
NpSign(a) ==
    CASE a.k = "nan" -> NaN
      [] a.k = "pinf" -> Num(1)
      [] a.k = "ninf" -> Num(-1)
      [] OTHER -> Num(Sign(Val(a).n))

\* lines 65-68 and 117-120: np.sign(diff).fillna(0).astype(int)
directionsBackfilled(c) ==
    LET price_changes == Diff(CloseOf(c))
    IN  [t \in 1..Len(c) |->
            LET sg == NpSign(price_changes[IF t = 1 /\ Len(c) > 1 THEN 2 ELSE t])
            IN  IF IsNaN(sg) THEN 0 ELSE sg.n]

directions(c) ==
    LET price_changes == Diff(CloseOf(c))
    IN  [t \in 1..Len(c) |->
            LET sg == NpSign(price_changes[t])
            IN  IF IsNaN(sg) THEN 0 ELSE sg.n]

\* lines 71 and 123: directions != directions.shift(1); the shifted series
\* starts with NaN, which differs from everything
change_pointsEveryRow(d) == [t \in 1..Len(d) |-> TRUE]

change_points(d) == [t \in 1..Len(d) |-> t = 1 \/ d[t] # d[t - 1]]

RECURSIVE CumSum(_, _)
\* lines 72 and 124: change_points.cumsum() at position t
CumSum(cp, t) ==
    IF t = 0 THEN 0 ELSE CumSum(cp, t - 1) + (IF cp[t] THEN 1 ELSE 0)

streak_ids(d) == [t \in 1..Len(d) |-> CumSum(change_points(d), t)]

\* the rows of one streak
RowsOf(ids, id) == {t \in 1..Len(ids) : ids[t] = id}

SetMin(S) == CHOOSE x \in S : \A y \in S : x <= y

SetMax(S) == CHOOSE x \in S : \A y \in S : x >= y

\* number of streaks: the last streak id, 0 for an empty series
NumStreaks(ids) == IF Len(ids) = 0 THEN 0 ELSE ids[Len(ids)]

\* lines 75-76: directions.groupby(streak_ids).agg(['size', 'first'])
streaks(d) ==
    LET ids == streak_ids(d)
    IN  [id \in 1..NumStreaks(ids) |->
            [length |-> Cardinality(RowsOf(ids, id)),
             direction |-> d[SetMin(RowsOf(ids, id))]]]

\* as if the selected streaks were listed latest first
LengthsOfLatestFirst(st, dir) ==
    LET sel == SelectSeq(st, LAMBDA r : r.direction = dir)
    IN  [k \in 1..Len(sel) |-> sel[Len(sel) + 1 - k].length]

LengthsOfNonzero(st, dir) ==
    LET sel == SelectSeq(st, LAMBDA r : r.direction # 0)
    IN  [k \in 1..Len(sel) |-> sel[k].length]

\* lines 79-80: streaks[streaks['direction'] == dir]['length'].tolist()
LengthsOf(st, dir) ==
    LET sel == SelectSeq(st, LAMBDA r : r.direction = dir)
    IN  [k \in 1..Len(sel) |-> sel[k].length]

RECURSIVE SeqSum(_)
SeqSum(q) == IF q = <<>> THEN 0 ELSE q[1] + SeqSum(Tail(q))

RECURSIVE SeqMax(_)
SeqMax(q) == IF Len(q) = 1 THEN q[1] ELSE Max(q[1], SeqMax(Tail(q)))

\* lines 87-88: max(streaks) if streaks else 0
LongestOf(q) == IF q # <<>> THEN SeqMax(q) ELSE 0

\* identify_runs, lines 65-89
identify_runs(c) ==
    LET st == streaks(directions(c))
        up_streaks == LengthsOf(st, 1)
        down_streaks == LengthsOf(st, -1)
    IN  [st |-> "ok",
         up_streaks |-> up_streaks,
         down_streaks |-> down_streaks,
         total_up_days |-> SeqSum(up_streaks),
         total_down_days |-> SeqSum(down_streaks),
         longest_up_streak |-> LongestOf(up_streaks),
         longest_down_streak |-> LongestOf(down_streaks)]

RECURSIVE RunPeriodsFrom(_, _, _)
\* the loop of lines 134-149 from streak id `id` on: a streak whose first
\* direction is not 0 appends its period
RunPeriodsFrom(d, ids, id) ==
    IF id > NumStreaks(ids) THEN <<>>
    ELSE LET streak_data == RowsOf(ids, id)
             direction == d[SetMin(streak_data)]
             rest == RunPeriodsFrom(d, ids, id + 1)
         IN  IF direction # 0
             THEN <<[start_date |-> SetMin(streak_data),
                     end_date |-> SetMax(streak_data),
                     direction |-> direction,
                     length |-> Cardinality(streak_data)]>> \o rest
             ELSE rest

\* the presentation filter: segments of a single day dropped
identify_run_periodsAtLeastTwoDays(c) ==
    LET d == directions(c)
    IN  [st |-> "ok",
         run_periods |-> SelectSeq(RunPeriodsFrom(d, streak_ids(d), 1),
                                   LAMBDA p : p.length >= 2)]

\* identify_run_periods, lines 117-151
identify_run_periods(c) ==
    LET d == directions(c)
    IN  [st |-> "ok", run_periods |-> RunPeriodsFrom(d, streak_ids(d), 1)]

CloseFrames == UNION {[1..n -> 0..MaxLevel] : n \in 0..MaxDays}

InitSeries ==
    /\ df \in CloseFrames
    /\ returns_out = Pending
    /\ runs_out = Pending
    /\ periods_out = Pending

IdleSeries ==
    /\ df = <<>>
    /\ returns_out = Pending
    /\ runs_out = Pending
    /\ periods_out = Pending

SeriesFrame == UNCHANGED <<profitVars, scoreVars, chooseVars, indVars,
                           portfolioVars, pureVars, guiVars, compareVars, configVars>>

CalculateDailyReturns ==
    /\ returns_out = Pending
    /\ returns_out' = calculate_daily_returns(df)
    /\ UNCHANGED <<df, runs_out, periods_out>>
    /\ SeriesFrame

IdentifyRuns ==
    /\ runs_out = Pending
    /\ runs_out' = identify_runs(df)
    /\ UNCHANGED <<df, returns_out, periods_out>>
    /\ SeriesFrame

IdentifyRunPeriods ==
    /\ periods_out = Pending
    /\ periods_out' = identify_run_periods(df)
    /\ UNCHANGED <<df, returns_out, runs_out>>
    /\ SeriesFrame

NextSeries == CalculateDailyReturns \/ IdentifyRuns \/ IdentifyRunPeriods

\* ---- properties of the daily returns
RECURSIVE CumProd(_, _, _)
\* (1 + r[a]) * ... * (1 + r[b])
CumProd(r, a, b) ==
    IF a > b THEN Num(1)
    ELSE FMul(CumProd(r, a, b - 1), FAdd(Num(1), r[b]))

AllPositive(c) == \A t \in 1..Len(c) : c[t] > 0

\* C14: for closes that are all > 0, calculate_daily_returns gives an
\* undefined first return and r[i] = Close[i]/Close[i-1] - 1 afterwards, so
\* the cumulative product of (1 + r[k]) over k = 1..i (0-based) is
\* Close[i]/Close[0].
C14_ReturnsRoundTrip ==
    (returns_out # Pending /\ AllPositive(df)) =>
        /\ Returned(returns_out)
        /\ Len(returns_out.s) = Len(df)
        /\ \A t \in 1..Len(df) :
              IF t = 1 THEN IsNaN(returns_out.s[t])
              ELSE /\ returns_out.s[t] = F(df[t] - df[t - 1], df[t - 1])
                   /\ CumProd(returns_out.s, 2, t) = F(df[t], df[1])

\* returns of a full-length positive series that rises and falls
C14_Witness ==
    /\ Returned(returns_out)
    /\ AllPositive(df)
    /\ Len(df) = MaxDays
    /\ \E t \in 2..Len(df) : FGt(returns_out.s[t], Num(0))
    /\ \E t \in 2..Len(df) : FLt(returns_out.s[t], Num(0))
    /\ df[Len(df)] # df[1]

\* ---- properties of the run analysis
\* the days of a series with the given direction, from the closes
DaysWith(c, dir) ==
    {t \in 2..Len(c) : Sign(c[t] - c[t - 1]) = dir}

PeriodDays(p) == p.start_date..p.end_date

RECURSIVE SumLengths(_)
SumLengths(ps) ==
    IF ps = <<>> THEN 0 ELSE ps[1].length + SumLengths(Tail(ps))

\* C15: for a series of n >= 1 points the run segments partition the days
\* after the first: the lengths of all up and down segments plus the number
\* of zero-change days add up to n - 1, and no day is in two segments.
C15_SegmentsPartitionDays ==
    Len(df) >= 1 =>
        /\ Returned(runs_out) =>
              SeqSum(runs_out.up_streaks) + SeqSum(runs_out.down_streaks)
                + Cardinality(DaysWith(df, 0)) = Len(df) - 1
        /\ Returned(periods_out) =>
              LET ps == periods_out.run_periods
              IN  /\ SumLengths(ps) + Cardinality(DaysWith(df, 0))
                       = Len(df) - 1
                  /\ \A j \in 1..Len(ps) :
                        /\ Cardinality(PeriodDays(ps[j])) = ps[j].length
                        /\ PeriodDays(ps[j]) \subseteq 2..Len(df)
                  /\ \A j, k \in 1..Len(ps) :
                        j # k => PeriodDays(ps[j]) \cap PeriodDays(ps[k]) = {}

\* both analyses have returned for a full-length series with an up segment, a
\* down segment and a zero-change day
C15_Witness ==
    /\ Len(df) = MaxDays
    /\ Returned(runs_out)
    /\ Returned(periods_out)
    /\ runs_out.up_streaks # <<>>
    /\ runs_out.down_streaks # <<>>
    /\ DaysWith(df, 0) # {}
    /\ Len(periods_out.run_periods) >= 2

\* C16: in the list identify_run_periods returns, no two consecutive
\* segments have the same direction.
C16_ConsecutiveSegmentsDiffer ==
    Returned(periods_out) =>
        LET ps == periods_out.run_periods
        IN  \A j \in 1..(Len(ps) - 1) : ps[j].direction # ps[j + 1].direction

\* the days strictly between two consecutive segments of the list
GapDays(ps, j) == (ps[j].end_date + 1)..(ps[j + 1].start_date - 1)

\* C16 (amended): two consecutive segments of the list have the same
\* direction only when at least one zero-change day lies between them, and
\* all days between them are zero-change days; segments that follow each
\* other without a gap differ in direction.
C16_SameDirectionOnlyAcrossFlatDays ==
    Returned(periods_out) =>
        LET ps == periods_out.run_periods
        IN  \A j \in 1..(Len(ps) - 1) :
               /\ GapDays(ps, j) \subseteq DaysWith(df, 0)
               /\ ps[j].direction = ps[j + 1].direction => GapDays(ps, j) # {}

\* a returned list with two consecutive segments of the same direction
\* around a zero-change day, and two gapless segments of opposite directions
C16_Witness ==
    /\ Returned(periods_out)
    /\ LET ps == periods_out.run_periods
       IN  /\ \E j \in 1..(Len(ps) - 1) :
                 /\ ps[j].direction = ps[j + 1].direction
                 /\ GapDays(ps, j) # {}
           /\ \E j \in 1..(Len(ps) - 1) :
                 /\ ps[j].direction # ps[j + 1].direction
                 /\ GapDays(ps, j) = {}

\* the maximal blocks <<first day, last day, direction>> of consecutive days
\* with the same nonzero direction, from the closes
Blocks(c) ==
    {b \in (2..Len(c)) \X (2..Len(c)) \X {1, -1} :
        /\ b[1] <= b[2]
        /\ b[1]..b[2] \subseteq DaysWith(c, b[3])
        /\ (b[1] - 1) \notin DaysWith(c, b[3])
        /\ (b[2] + 1) \notin DaysWith(c, b[3])}

\* C17: identify_run_periods returns, in chronological order, exactly one
\* segment per maximal block of consecutive days with the same nonzero
\* direction (blocks of one day included), with the block's first and last
\* day as start and end and its number of days as length; zero-change days
\* end a run and give no segment.
C17_OneSegmentPerMaximalBlock ==
    Returned(periods_out) =>
        LET ps == periods_out.run_periods
        IN  /\ {<<ps[j].start_date, ps[j].end_date, ps[j].direction>> :
                   j \in 1..Len(ps)} = Blocks(df)
            /\ Len(ps) = Cardinality(Blocks(df))
            /\ \A j \in 1..Len(ps) :
                  ps[j].length = ps[j].end_date - ps[j].start_date + 1
            /\ \A j \in 1..(Len(ps) - 1) :
                  ps[j].end_date < ps[j + 1].start_date

\* a returned list with a one-day segment, a longer one, and a zero-change
\* day after the first segment
C17_Witness ==
    /\ Returned(periods_out)
    /\ LET ps == periods_out.run_periods
       IN  /\ \E j \in 1..Len(ps) : ps[j].length = 1
           /\ \E j \in 1..Len(ps) : ps[j].length >= 2
           /\ Len(ps) >= 2
           /\ (ps[1].end_date + 1) \in DaysWith(df, 0)

\* the length of the longest maximal block of the given direction, 0 if none
LongestBlock(c, dir) ==
    LET lens == {b[2] - b[1] + 1 : b \in {x \in Blocks(c) : x[3] = dir}}
    IN  IF lens = {} THEN 0 ELSE SetMax(lens)

\* C18: for every series, the empty and the one-point series included,
\* identify_runs returns without raising, total_up_days and total_down_days
\* count the days that closed above and below the previous close, and
\* longest_up_streak and longest_down_streak are the greatest streak length
\* of their direction, 0 when there is no such streak.
C18_RunTotalsAndLongest ==
    runs_out # Pending =>
        /\ Returned(runs_out)
        /\ runs_out.total_up_days = Cardinality(DaysWith(df, 1))
        /\ runs_out.total_down_days = Cardinality(DaysWith(df, -1))
        /\ runs_out.longest_up_streak = LongestBlock(df, 1)
        /\ runs_out.longest_down_streak = LongestBlock(df, -1)

\* identify_runs has returned for a series with two up streaks of different
\* lengths around a single down day
C18_Witness ==
    /\ Returned(runs_out)
    /\ Len(runs_out.up_streaks) = 2
    /\ runs_out.up_streaks[1] # runs_out.up_streaks[2]
    /\ runs_out.total_up_days = 3
    /\ runs_out.longest_up_streak = 2
    /\ runs_out.total_down_days = 1
    /\ runs_out.longest_down_streak = 1

\* the lengths of the segments of direction dir, in the order of the list
SegmentLengths(periods, dir) ==
    LET sel == SelectSeq(periods, LAMBDA p : p.direction = dir)
    IN  [k \in 1..Len(sel) |-> sel[k].length]

\* C28: up_streaks and down_streaks of identify_runs are the lengths, in the
\* same order, of the +1 and of the -1 segments of identify_run_periods for
\* the same frame.
C28_StreaksAreSegmentLengths ==
    (Returned(runs_out) /\ Returned(periods_out)) =>
        /\ runs_out.up_streaks = SegmentLengths(periods_out.run_periods, 1)
        /\ runs_out.down_streaks = SegmentLengths(periods_out.run_periods, -1)

\* both functions have returned for a frame with two up segments of
\* different lengths and a down segment between them
C28_Witness ==
    /\ Returned(runs_out)
    /\ Returned(periods_out)
    /\ Len(periods_out.run_periods) = 3
    /\ runs_out.up_streaks = <<1, 2>>
    /\ runs_out.down_streaks = <<1>>
    /\ periods_out.run_periods[2].direction = -1

\* ================================================================
\* portfolio_analyzer.py : PortfolioAnalyzer
\* ================================================================
\* A dict is the sequence of its items [ticker, val] in insertion order.  A
\* price history is [loaded |-> TRUE, first, closes]: consecutive dates
\* first, first + 1, ... with one close each; NoData is None.  A pandas Series
\* is [none |-> FALSE, index, values]; NoSeries is None.

\* lines 102-104: the sample portfolio
SampleTickers == <<"AAPL", "MSFT", "GOOGL">>

SampleWeights == <<F(2, 5), F(3, 10), F(3, 10)>>

QuoteVals == {1, 2}

NoData == [loaded |-> FALSE, first |-> 0, closes |-> <<>>]

\* what fetch_stock_data can return besides None: a non-empty history
\* and the closes of the example in calculate_daily_returns' description
DocCloses == <<100, 105, 102>>

Frames ==
    {[loaded |-> TRUE, first |-> x[1], closes |-> x[2]] :
        x \in {y \in (1..MaxDate) \X UNION {[1..n -> QuoteVals] : n \in 1..MaxDate} :
                 y[1] + Len(y[2]) - 1 <= MaxDate}}
    \cup {[loaded |-> TRUE, first |-> 1, closes |-> DocCloses]}

NoSeries == [none |-> TRUE, index |-> <<>>, values |-> <<>>]

HasItem(dct, key) == \E k \in 1..Len(dct) : dct[k].ticker = key

PosOf(dct, key) == CHOOSE k \in 1..Len(dct) : dct[k].ticker = key

GetItem(dct, key) == dct[PosOf(dct, key)].val

\* dct[key] = val: an existing key keeps its place
SetItem(dct, key, val) ==
    IF HasItem(dct, key) THEN [dct EXCEPT ![PosOf(dct, key)].val = val]
    ELSE Append(dct, [ticker |-> key, val |-> val])

\* the returns of one stock as a dated series, line 33
ReturnsOf(data) ==
    [none |-> FALSE,
     index |-> [k \in 1..Len(data.closes) |-> data.first + k - 1],
     values |-> calculate_daily_returns(data.closes).s]

\* series * weight
Scale(sr, w) ==
    [sr EXCEPT !.values = [k \in 1..Len(sr.values) |-> FMul(sr.values[k], w)]]

\* as if line 40 did not reindex
ReindexKeepOwnDates(sr, idx) == sr

\* line 40: returns.reindex(index): a label the series lacks gets NaN
ReindexNoFill(sr, idx) ==
    [none |-> FALSE,
     index |-> idx,
     values |-> [k \in 1..Len(idx) |->
                    IF \E j \in 1..Len(sr.index) : sr.index[j] = idx[k]
                    THEN sr.values[CHOOSE j \in 1..Len(sr.index) :
                                       sr.index[j] = idx[k]]
                    ELSE NaN]]

\* line 40: returns.reindex(index, fill_value=0): the values at the labels of
\* index, 0 at a label the series lacks (a NaN the series holds stays NaN)
Reindex(sr, idx) ==
    [none |-> FALSE,
     index |-> idx,
     values |-> [k \in 1..Len(idx) |->
                    IF \E j \in 1..Len(sr.index) : sr.index[j] = idx[k]
                    THEN sr.values[CHOOSE j \in 1..Len(sr.index) :
                                       sr.index[j] = idx[k]]
                    ELSE Num(0)]]

RECURSIVE SortedSeq(_)
\* the elements of a set of dates in ascending order
SortedSeq(S) ==
    IF S = {} THEN <<>> ELSE <<SetMin(S)>> \o SortedSeq(S \ {SetMin(S)})

LabelsOf(sr) == {sr.index[j] : j \in 1..Len(sr.index)}

ValueAt(sr, label) ==
    sr.values[CHOOSE j \in 1..Len(sr.index) : sr.index[j] = label]

\* line 41: portfolio_returns += aligned_returns * weight.  Series addition
\* aligns on the labels: equal indexes are kept, otherwise the result has the
\* sorted union of the labels and NaN where one operand lacks the label.
SeriesAdd(a, b) ==
    LET idx == IF a.index = b.index THEN a.index
               ELSE SortedSeq(LabelsOf(a) \cup LabelsOf(b))
    IN  [none |-> FALSE,
         index |-> idx,
         values |-> [k \in 1..Len(idx) |->
                        IF idx[k] \in LabelsOf(a) /\ idx[k] \in LabelsOf(b)
                        THEN FAdd(ValueAt(a, idx[k]), ValueAt(b, idx[k]))
                        ELSE NaN]]

RECURSIVE PortfolioReturnsFrom(_, _, _, _)
\* the loop of lines 31-41 from item k on
PortfolioReturnsFrom(st, wt, k, portfolio_returns) ==
    IF k > Len(st) THEN portfolio_returns
    ELSE IF ~st[k].val.loaded
    THEN PortfolioReturnsFrom(st, wt, k + 1, portfolio_returns)
    ELSE LET returns == ReturnsOf(st[k].val)
             weight == GetItem(wt, st[k].ticker)
         IN  IF portfolio_returns.none
             THEN PortfolioReturnsFrom(st, wt, k + 1, Scale(returns, weight))
             ELSE PortfolioReturnsFrom(st, wt, k + 1,
                      SeriesAdd(portfolio_returns,
                                Scale(Reindex(returns, portfolio_returns.index),
                                      weight)))

\* calculate_portfolio_returns, lines 29-43
calculate_portfolio_returns(st, wt) == PortfolioReturnsFrom(st, wt, 1, NoSeries)

RECURSIVE ProdSkipNa(_)
\* Series.prod(): the product of the entries that are not NaN, 1 if none
ProdSkipNa(v) ==
    IF v = <<>> THEN Num(1)
    ELSE IF IsNaN(v[1]) THEN ProdSkipNa(Tail(v))
    ELSE FMul(v[1], ProdSkipNa(Tail(v)))

\* line 86: (returns + 1).prod() - 1
StockReturn(data) ==
    LET r == ReturnsOf(data).values
    IN  FSub(ProdSkipNa([k \in 1..Len(r) |-> FAdd(r[k], Num(1))]), Num(1))

RECURSIVE WeightedReturnsFrom(_, _, _)
\* the loop of lines 83-89: the contributions dict
WeightedReturnsFrom(st, wt, k) ==
    IF k > Len(st) THEN <<>>
    ELSE IF ~st[k].val.loaded THEN WeightedReturnsFrom(st, wt, k + 1)
    ELSE <<[ticker |-> st[k].ticker,
            val |-> FMul(StockReturn(st[k].val), GetItem(wt, st[k].ticker))]>>
         \o WeightedReturnsFrom(st, wt, k + 1)

RECURSIVE TotalOf(_)
\* line 89: total_return, accumulated from 0
TotalOf(contributions) ==
    IF contributions = <<>> THEN Num(0)
    ELSE FAdd(TotalOf(SubSeq(contributions, 1, Len(contributions) - 1)),
              contributions[Len(contributions)].val)

\* the normalisation applied whatever the total
ToPercentagesAlways(contributions, total_return) ==
    [k \in 1..Len(contributions) |->
        [contributions[k] EXCEPT
            !.val = FMul(FDiv(contributions[k].val, total_return), Num(100))]]

\* lines 92-94
ToPercentages(contributions, total_return) ==
    IF FGt(total_return, Num(0))
    THEN [k \in 1..Len(contributions) |->
             [contributions[k] EXCEPT
                 !.val = FMul(FDiv(contributions[k].val, total_return), Num(100))]]
    ELSE contributions

\* calculate_contributions, lines 80-96
calculate_contributions(st, wt) ==
    LET contributions == WeightedReturnsFrom(st, wt, 1)
    IN  ToPercentages(contributions, TotalOf(contributions))

\* lines 22-23: the fetched history is stored, None leaves the entry alone
StoreFetchedAlways(old, data) == data

StoreFetched(old, data) == IF data.loaded THEN data ELSE old

\* pa_log records the calls: for every ticker the weight of its latest
\* add_stock and the latest history a fetch has delivered since then
Added(log, ticker, weight) ==
    SetItem(log, ticker, [weight |-> weight, data |-> NoData])

Fetched(log, k, data) ==
    IF data.loaded THEN [log EXCEPT ![k].val.data = data] ELSE log

InitPortfolio ==
    /\ stocks = <<>>
    /\ weights = <<>>
    /\ pa_pc = "idle"
    /\ ld_i = 0
    /\ pa_out = Pending
    /\ pa_log = <<>>

IdlePortfolio == InitPortfolio

PortfolioFrame ==
    UNCHANGED <<profitVars, scoreVars, chooseVars, indVars,
                                  seriesVars, pureVars, guiVars, compareVars, configVars>>

\* add_stock, lines 15-16; the sample's tickers are added in the sample's
\* order, each with its sample weight, and any ticker present may be added
\* again
AddStock ==
    /\ pa_pc = "idle"
    /\ \E k \in 1..Len(SampleTickers) :
          /\ k <= Len(stocks) + 1
          /\ stocks' = SetItem(stocks, SampleTickers[k], NoData)
          /\ weights' = SetItem(weights, SampleTickers[k], SampleWeights[k])
          /\ pa_log' = Added(pa_log, SampleTickers[k], SampleWeights[k])
    /\ pa_out' = Pending
    /\ UNCHANGED <<pa_pc, ld_i>>
    /\ PortfolioFrame

\* load_portfolio_data, line 20: the loop starts (and ends, with no stock)
LoadPortfolioData ==
    /\ pa_pc = "idle"
    /\ pa_pc' = IF stocks = <<>> THEN "idle" ELSE "loading"
    /\ ld_i' = IF stocks = <<>> THEN 0 ELSE 1
    /\ pa_out' = Pending
    /\ UNCHANGED <<stocks, weights, pa_log>>
    /\ PortfolioFrame

\* lines 21-25: one iteration; fetch_stock_data returns a history or None
FetchFrom(results) ==
    /\ pa_pc = "loading"
    /\ \E data \in results :
          /\ stocks' = [stocks EXCEPT
                           ![ld_i].val = StoreFetched(stocks[ld_i].val, data)]
          /\ pa_log' = Fetched(pa_log, ld_i, data)
    /\ pa_pc' = IF ld_i = Len(stocks) THEN "idle" ELSE "loading"
    /\ ld_i' = IF ld_i = Len(stocks) THEN 0 ELSE ld_i + 1
    /\ UNCHANGED <<weights, pa_out>>
    /\ PortfolioFrame

FetchStockData == FetchFrom(Frames \cup {NoData})

CalculatePortfolioReturns ==
    /\ pa_pc = "idle"
    /\ pa_out' = [st |-> "ok", op |-> "calculate_portfolio_returns",
                  ret |-> calculate_portfolio_returns(stocks, weights)]
    /\ UNCHANGED <<stocks, weights, pa_pc, ld_i, pa_log>>
    /\ PortfolioFrame

CalculateContributions ==
    /\ pa_pc = "idle"
    /\ pa_out' = [st |-> "ok", op |-> "calculate_contributions",
                  ret |-> calculate_contributions(stocks, weights)]
    /\ UNCHANGED <<stocks, weights, pa_pc, ld_i, pa_log>>
    /\ PortfolioFrame

\* ---- analyze_portfolio, lines 45-69
ErrorRecord(msg) == [st |-> "ok", op |-> "analyze_portfolio", error |-> msg]

RaisedIn(name) == [st |-> "raised", op |-> name]

\* the entries of a float sequence that are not NaN
DropNa(v) == SelectSeq(v, LAMBDA x : ~IsNaN(x))

RECURSIVE SumSqVals(_)
SumSqVals(q) ==
    IF q = <<>> THEN Num(0) ELSE FAdd(FMul(q[1], q[1]), SumSqVals(Tail(q)))

RECURSIVE SumFloats(_)
SumFloats(q) == IF q = <<>> THEN Num(0) ELSE FAdd(q[1], SumFloats(Tail(q)))

\* line 57: (portfolio_returns + 1).prod() - 1
TotalReturn(v) ==
    FSub(ProdSkipNa([k \in 1..Len(v) |-> FAdd(v[k], Num(1))]), Num(1))

\* line 58: (1 + total_return) ** (252 / len) - 1, the power kept symbolic;
\* NumPy gives NaN, not an exception, for a negative base
AnnualReturn(total_return, len) ==
    LET base == FAdd(Num(1), total_return)
    IN  IF IsNaN(base) \/ FLt(base, Num(0)) THEN NaN
        ELSE IF base = Num(1) THEN Num(0)
        ELSE [k |-> "pow", n |-> base.n, d |-> base.d, e |-> F(252, len)]

\* line 59: Series.std() * sqrt(252): the sample deviation of the entries
\* that are not NaN, NaN for fewer than two of them; the root kept symbolic
Volatility(v) ==
    LET x == DropNa(v)
        m == Len(x)
    IN  IF m < 2 THEN NaN
        ELSE LET s1 == SumFloats(x)
                 s2 == SumSqVals(x)
                 var == FDiv(FSub(FMul(Num(m), s2), FMul(s1, s1)),
                             Num(m * (m - 1)))
             IN  [k |-> "sqrt", n |-> 252 * Val(var).n, d |-> Val(var).d]

\* volatility > 0, false for NaN
VolatilityPositive(vol) == vol.k = "sqrt" /\ vol.n > 0

\* line 60
SharpeRatio(annual_return, volatility) ==
    IF VolatilityPositive(volatility)
    THEN [k |-> "quot", num |-> annual_return, den |-> volatility]
    ELSE Num(0)

RECURSIVE CumProdSkipNaAt(_, _)
\* Series.cumprod() at position t: NaN where the entry is NaN, else the
\* product of the entries so far that are not NaN
CumProdSkipNaAt(v, t) ==
    IF IsNaN(v[t]) THEN NaN ELSE ProdSkipNa(SubSeq(v, 1, t))

RECURSIVE FMaxOf(_)
FMaxOf(q) ==
    IF Len(q) = 1 THEN q[1]
    ELSE LET r == FMaxOf(Tail(q)) IN IF FGt(q[1], r) THEN q[1] ELSE r

RECURSIVE FMinOf(_)
FMinOf(q) ==
    IF Len(q) = 1 THEN q[1]
    ELSE LET r == FMinOf(Tail(q)) IN IF FLt(q[1], r) THEN q[1] ELSE r

\* calculate_max_drawdown, lines 73-76
calculate_max_drawdown(returns) ==
    LET one == [k \in 1..Len(returns) |-> FAdd(Num(1), returns[k])]
        cumulative_returns == [t \in 1..Len(one) |-> CumProdSkipNaAt(one, t)]
        peak == [t \in 1..Len(one) |->
                    LET seen == DropNa(SubSeq(cumulative_returns, 1, t))
                    IN  IF seen = <<>> THEN NaN ELSE FMaxOf(seen)]
        drawdown == [t \in 1..Len(one) |->
                        FDiv(FSub(cumulative_returns[t], peak[t]), peak[t])]
        defined == DropNa(drawdown)
    IN  IF defined = <<>> THEN NaN ELSE FMinOf(defined)

\* lines 53-69 with the None guard of lines 53-54 left out
StatisticsOfNoNoneGuard(portfolio_returns, st, wt) ==
    IF portfolio_returns.none \/ Len(portfolio_returns.values) = 0
    THEN RaisedIn("analyze_portfolio")
    ELSE ErrorRecord("none")

\* lines 53-69: the record built from the portfolio returns; 252 / len
\* raises ZeroDivisionError for an empty series
StatisticsOf(portfolio_returns, st, wt) ==
    IF portfolio_returns.none
    THEN ErrorRecord("Could not calculate portfolio returns")
    ELSE IF Len(portfolio_returns.values) = 0
    THEN RaisedIn("analyze_portfolio")
    ELSE LET v == portfolio_returns.values
             total_return == TotalReturn(v)
             annual_return == AnnualReturn(total_return, Len(v))
             volatility == Volatility(v)
         IN  [st |-> "ok", op |-> "analyze_portfolio", error |-> "",
              total_return |-> total_return,
              annual_return |-> annual_return,
              volatility |-> volatility,
              sharpe_ratio |-> SharpeRatio(annual_return, volatility),
              max_drawdown |-> calculate_max_drawdown(v),
              stock_contributions |-> calculate_contributions(st, wt)]

\* the histories fetched during an analysis: at most MaxPoints points
ShortFrames == {f \in Frames : Len(f.closes) <= MaxPoints}

\* lines 47-50: no stock gives the error record at once, else the load loop
\* of load_portfolio_data starts
AnalyzePortfolio ==
    /\ pa_pc = "idle"
    /\ IF stocks = <<>>
       THEN /\ pa_out' = ErrorRecord("No stocks in portfolio")
            /\ UNCHANGED <<pa_pc, ld_i>>
       ELSE /\ pa_out' = Pending
            /\ pa_pc' = "analyzing"
            /\ ld_i' = 1
    /\ UNCHANGED <<stocks, weights, pa_log>>
    /\ PortfolioFrame

\* line 50, one iteration of the load loop inside analyze_portfolio; after
\* the last one lines 51-69 build the result
AnalyzeFetchStockData ==
    /\ pa_pc = "analyzing"
    /\ \E data \in ShortFrames \cup {NoData} :
          /\ stocks' = [stocks EXCEPT
                           ![ld_i].val = StoreFetched(stocks[ld_i].val, data)]
          /\ pa_log' = Fetched(pa_log, ld_i, data)
    /\ IF ld_i = Len(stocks)
       THEN /\ pa_pc' = "idle"
            /\ ld_i' = 0
            /\ pa_out' = StatisticsOf(calculate_portfolio_returns(stocks', weights),
                                      stocks', weights)
       ELSE /\ pa_pc' = "analyzing"
            /\ ld_i' = ld_i + 1
            /\ pa_out' = pa_out
    /\ UNCHANGED weights
    /\ PortfolioFrame

NextPortfolio ==
    \/ AddStock
    \/ LoadPortfolioData
    \/ FetchStockData
    \/ CalculatePortfolioReturns
    \/ CalculateContributions

NextAnalyze == AddStock \/ AnalyzePortfolio \/ AnalyzeFetchStockData

\* ---- add_stock and load_portfolio_data with any weight

WeightVals == {F(1, 2), F(1, 10)}

\* add_stock, lines 15-16, for a ticker the portfolio holds already
AddStockAgain ==
    /\ pa_pc = "idle"
    /\ \E k \in 1..Len(stocks), weight \in WeightVals :
          /\ stocks' = SetItem(stocks, stocks[k].ticker, NoData)
          /\ weights' = SetItem(weights, stocks[k].ticker, weight)
          /\ pa_log' = Added(pa_log, stocks[k].ticker, weight)
    /\ pa_out' = Pending
    /\ UNCHANGED <<pa_pc, ld_i>>
    /\ PortfolioFrame

FetchShortStockData == FetchFrom(ShortFrames \cup {NoData})

NextStocks ==
    AddStock \/ AddStockAgain \/ LoadPortfolioData \/ FetchShortStockData

\* ---- properties of the portfolio aggregation
ReturnsCalled == pa_out # Pending /\ pa_out.op = "calculate_portfolio_returns"

LoadedItems == {k \in 1..Len(stocks) : stocks[k].val.loaded}

DatesOf(data) == data.first..(data.first + Len(data.closes) - 1)

CloseOn(data, d) == data.closes[d - data.first + 1]

\* stock k has a return on date d: d is a date of its history after the first
HasReturn(k, d) ==
    d \in DatesOf(stocks[k].val) /\ d # stocks[k].val.first

\* weight_k * return_k(d), from the closes
WeightedReturnOn(k, d) ==
    LET data == stocks[k].val
    IN  FMul(GetItem(weights, stocks[k].ticker),
             F(CloseOn(data, d) - CloseOn(data, d - 1), CloseOn(data, d - 1)))

RECURSIVE SumWeighted(_, _)
\* the sum of the weighted returns on date d of the stocks in S
SumWeighted(S, d) ==
    IF S = {} THEN Num(0)
    ELSE LET k == SetMax(S)
         IN  FAdd(SumWeighted(S \ {k}, d), WeightedReturnOn(k, d))

\* the value the returned series holds for date d
ValueOn(sr, d) == sr.values[CHOOSE j \in 1..Len(sr.index) : sr.index[j] = d]

IndexSet(sr) == {sr.index[j] : j \in 1..Len(sr.index)}

\* C19: calculate_portfolio_returns yields for each date the sum over the
\* loaded stocks of weight * return on that date, a stock with no return on
\* the date contributing 0 (stated for the dates on which at least one loaded
\* stock has a return).
C19_WeightedSumZeroWhereNoReturn ==
    (ReturnsCalled /\ LoadedItems # {}) =>
        \A d \in IndexSet(pa_out.ret) :
            (\E k \in LoadedItems : HasReturn(k, d)) =>
                ValueOn(pa_out.ret, d)
                   = SumWeighted({k \in LoadedItems : HasReturn(k, d)}, d)

\* C19 (amended): the result is None when no stock is loaded; otherwise it
\* has the dates of the first loaded stock, and on each of them it is
\* undefined if the date is the first date of any loaded stock, and else the
\* sum of weight * return over the loaded stocks whose history has the date
\* (a stock whose history lacks the date contributes 0).  With the sample's
\* three stocks loaded with one and the same history the result is that
\* history's return series.
C19_WeightedSumOverAlignedDates ==
    ReturnsCalled =>
        IF LoadedItems = {} THEN pa_out.ret = NoSeries
        ELSE LET first == stocks[SetMin(LoadedItems)].val
                 sr == pa_out.ret
             IN  /\ ~sr.none
                 /\ Len(sr.index) = Len(sr.values)
                 /\ sr.index = [j \in 1..Len(first.closes) |-> first.first + j - 1]
                 /\ \A d \in IndexSet(sr) :
                       IF \E k \in LoadedItems : d = stocks[k].val.first
                       THEN IsNaN(ValueOn(sr, d))
                       ELSE ValueOn(sr, d)
                              = SumWeighted({k \in LoadedItems :
                                               d \in DatesOf(stocks[k].val)}, d)
                 /\ (/\ LoadedItems = 1..Len(SampleTickers)
                     /\ \A k \in LoadedItems : stocks[k].val = first)
                       => sr.values = calculate_daily_returns(first.closes).s

\* the returns of a portfolio of three loaded stocks: on one date a stock
\* without the date contributes 0 to a defined sum, on another date after
\* the first the result is undefined because a later stock's history starts
\* there
C19_Witness ==
    /\ ReturnsCalled
    /\ LoadedItems = 1..Len(SampleTickers)
    /\ \E d \in IndexSet(pa_out.ret) :
          /\ ~IsNaN(ValueOn(pa_out.ret, d))
          /\ ~IsZero(ValueOn(pa_out.ret, d))
          /\ \E k \in LoadedItems : d \notin DatesOf(stocks[k].val)
    /\ \E d \in IndexSet(pa_out.ret) :
          /\ IsNaN(ValueOn(pa_out.ret, d))
          /\ HasReturn(SetMin(LoadedItems), d)

ContributionsCalled == pa_out # Pending /\ pa_out.op = "calculate_contributions"

\* the loaded stocks in insertion order
LoadedSeq == SelectSeq(stocks, LAMBDA it : it.val.loaded)

\* weight * (product of (1 + r) - 1), the product being last close / first
\* close
WeightedTotalReturn(it) ==
    LET c == it.val.closes
    IN  FMul(GetItem(weights, it.ticker), F(c[Len(c)] - c[1], c[1]))

RECURSIVE SumVals(_)
SumVals(q) == IF q = <<>> THEN Num(0) ELSE FAdd(q[1], SumVals(Tail(q)))

RawContributions == [k \in 1..Len(LoadedSeq) |-> WeightedTotalReturn(LoadedSeq[k])]

\* C20: calculate_contributions reports one value per loaded stock; with
\* each stock's weighted total return weight * (product of (1 + r) - 1) and
\* their sum, the values are weighted return / sum * 100 and add up to 100
\* when the sum is > 0, and the weighted returns themselves when the sum is
\* <= 0.
C20_ContributionsNormalisedWhenPositive ==
    ContributionsCalled =>
        LET out == pa_out.ret
            raw == RawContributions
            total == SumVals(raw)
        IN  /\ Len(out) = Len(LoadedSeq)
            /\ \A k \in 1..Len(out) : out[k].ticker = LoadedSeq[k].ticker
            /\ IF FGt(total, Num(0))
               THEN /\ \A k \in 1..Len(out) :
                          FEq(out[k].val,
                              FDiv(FMul(raw[k], Num(100)), total))
                    /\ FEq(SumVals([k \in 1..Len(out) |-> out[k].val]),
                           Num(100))
               ELSE \A k \in 1..Len(out) : FEq(out[k].val, raw[k])

\* contributions of three loaded stocks with a positive sum: one stock lost,
\* one gained more than the whole (over 100 percent)
C20_Witness ==
    /\ ContributionsCalled
    /\ Len(pa_out.ret) = Len(SampleTickers)
    /\ FGt(SumVals(RawContributions), Num(0))
    /\ \E k \in 1..Len(pa_out.ret) : FLt(pa_out.ret[k].val, Num(0))
    /\ \E k \in 1..Len(pa_out.ret) : FGt(pa_out.ret[k].val, Num(100))
    /\ \E k \in 1..Len(pa_out.ret) : Len(stocks[k].val.closes) = Len(DocCloses)

\* ---- properties of analyze_portfolio
AnalyzeReturned == pa_out # Pending /\ pa_out.op = "analyze_portfolio"

SinglePointOnly ==
    \A k \in LoadedItems : Len(stocks[k].val.closes) = 1

\* C21: analyze_portfolio never raises on empty or minimal input: with no
\* stock it returns an error record, with stocks of which none has data it
\* returns an error record, and with loaded histories of a single point it
\* returns a statistics record.
C21_AnalyzeNeverRaisesOnMinimalInput ==
    AnalyzeReturned =>
        /\ pa_out.st = "ok"
        /\ stocks = <<>> => pa_out.error = "No stocks in portfolio"
        /\ (stocks # <<>> /\ LoadedItems = {}) =>
              pa_out.error = "Could not calculate portfolio returns"
        /\ (LoadedItems # {} /\ SinglePointOnly) =>
              /\ pa_out.error = ""
              /\ pa_out.total_return = Num(0)
              /\ pa_out.annual_return = Num(0)
              /\ IsNaN(pa_out.volatility)
              /\ pa_out.sharpe_ratio = Num(0)
              /\ IsNaN(pa_out.max_drawdown)
              /\ Len(pa_out.stock_contributions) = Cardinality(LoadedItems)

\* the statistics record of a portfolio of three stocks of which two have a
\* single-point history and one has no data
C21_Witness ==
    /\ AnalyzeReturned
    /\ Len(stocks) = Len(SampleTickers)
    /\ Cardinality(LoadedItems) = 2
    /\ SinglePointOnly
    /\ pa_out.error = ""
    /\ IsNaN(pa_out.volatility)

\* ------------------------------------------- purity of the calculations
\* calculations.py 13-271 and advanced_calculations.py 13-41: seven functions
\* are called, in any order and any number of times, on one price series.
\* pu_df is the caller's series object, pu_given the values it held when it
\* was created, pu_first the first call made and what it returned, pu_last
\* the latest call, what it returned and whether it was the first (nth 1)
\* or a later one (nth 2).

PureInputs == UNION {[1..n -> 1..MaxLevel] : n \in 0..MaxLen}

PureWindows == {-1, 1, 2}

PureNames ==
    {"calculate_sma", "calculate_daily_returns", "calculate_rsi",
     "calculate_bollinger_bands", "identify_runs", "identify_run_periods",
     "calculate_max_profit"}

\* advanced_calculations.py 34-41: the whole loop, from index j on.
RECURSIVE MaxProfitFrom(_, _, _)
MaxProfitFrom(p, j, acc) ==
    IF j >= Len(p) THEN acc ELSE MaxProfitFrom(p, j + 1, MaxProfitBody(p, j, acc))

calculate_max_profit(p) == MaxProfitFrom(p, 1, 0)

\* What a function returns for the series c and the window w.
ResultOf(name, c, w) ==
    CASE name = "calculate_sma" -> calculate_sma(c, w)
      [] name = "calculate_daily_returns" -> calculate_daily_returns(c)
      [] name = "calculate_rsi" -> calculate_rsi(c, w)
      [] name = "calculate_bollinger_bands" -> calculate_bollinger_bands(c, w, 2)
      [] name = "identify_runs" -> identify_runs(c)
      [] name = "identify_run_periods" -> identify_run_periods(c)
      [] name = "calculate_max_profit" ->
            [st |-> "ok", ret |-> calculate_max_profit(c)]

\* as if line 173 were df['Close'] = df['Close'].diff()
DiffInPlace(name, c) ==
    IF name = "calculate_daily_returns" /\ Len(c) >= 2
    THEN [k \in 1..Len(c) |-> IF k = 1 THEN c[1] ELSE c[k] - c[k - 1]]
    ELSE c

\* What the caller's series holds after the call: every function only reads
\* df['Close'] (lines 36, 65, 117, 173, 208, 262, 265) or prices[i] (38-39);
\* diff, rolling, pct_change, ewm build new Series, and every name assigned
\* to is local.
SeriesAfter(name, c) == c

InitPure ==
    /\ pu_given \in PureInputs
    /\ pu_df = pu_given
    /\ pu_window \in PureWindows
    /\ pu_first = Pending
    /\ pu_last = Pending

IdlePure ==
    /\ pu_given = <<>>
    /\ pu_df = <<>>
    /\ pu_window = 0
    /\ pu_first = Pending
    /\ pu_last = Pending

PureFrame == UNCHANGED <<profitVars, scoreVars, chooseVars, indVars,
                         seriesVars, portfolioVars, guiVars, compareVars, configVars>>

Call(name) ==
    /\ pu_last' = [st |-> "returned", name |-> name,
                   nth |-> IF pu_first = Pending THEN 1 ELSE 2,
                   ret |-> ResultOf(name, pu_df, pu_window)]
    /\ pu_first' = IF pu_first = Pending THEN pu_last' ELSE pu_first
    /\ pu_df' = SeriesAfter(name, pu_df)
    /\ UNCHANGED <<pu_given, pu_window>>
    /\ PureFrame

CallCalculateSma == Call("calculate_sma")

CallCalculateDailyReturns == Call("calculate_daily_returns")

CallCalculateRsi == Call("calculate_rsi")

CallCalculateBollingerBands == Call("calculate_bollinger_bands")

CallIdentifyRuns == Call("identify_runs")

CallIdentifyRunPeriods == Call("identify_run_periods")

CallCalculateMaxProfit == Call("calculate_max_profit")

NextPure ==
    \/ CallCalculateSma
    \/ CallCalculateDailyReturns
    \/ CallCalculateRsi
    \/ CallCalculateBollingerBands
    \/ CallIdentifyRuns
    \/ CallIdentifyRunPeriods
    \/ CallCalculateMaxProfit

TickerTexts == {"", "  ", "aapl", "AAPL"}

SmaTexts == {"abc", "-3", "0", "10"}

\* str.strip().upper(), line 211
StripUpper(s) ==
    CASE s = "" -> ""
      [] s = "  " -> ""
      [] s = "aapl" -> "AAPL"
      [] s = "AAPL" -> "AAPL"

\* int(), line 213: raises ValueError on text that is no integer literal
ParseInt(s) ==
    CASE s = "abc" -> [raised |-> "ValueError"]
      [] s = "-3" -> [raised |-> "no", val |-> -3]
      [] s = "0" -> [raised |-> "no", val |-> 0]
      [] s = "10" -> [raised |-> "no", val |-> 10]

\* fetch_stock_data catches every exception itself and returns None
\* (data_loader.py 60-62, 73-79); line 228 treats an empty frame as None.
FetchOutcomes == {"data", "none", "empty"}

\* line 184
StateOnStart == "disabled"

FinallyOnlyAfterSuccess(how) == IF how = "success" THEN "normal" ELSE "disabled"

\* lines 262-264: the finally clause runs however the try block was left
FinallyState(how) == "normal"

Access(widget, thread) == [widget |-> widget, thread |-> thread]

InitGui ==
    /\ analyze_btn = "normal"
    /\ status_var = "Ready to analyze stocks..."
    /\ ticker_var = "AAPL"
    /\ sma_var = "10"
    /\ threads = <<>>
    /\ after_queue = <<>>
    /\ results_text = 0
    /\ chart = 0
    /\ accesses = {}

IdleGui == InitGui

GuiFrame == UNCHANGED <<profitVars, scoreVars, chooseVars, indVars,
                        seriesVars, portfolioVars, pureVars, compareVars, configVars>>

\* the user types into the ticker or the SMA entry
EditInputs ==
    /\ \E t \in TickerTexts, w \in SmaTexts :
          /\ <<t, w>> # <<ticker_var, sma_var>>
          /\ ticker_var' = t
          /\ sma_var' = w
    /\ UNCHANGED <<analyze_btn, status_var, threads, after_queue,
                   results_text, chart, accesses>>
    /\ GuiFrame

\* analyze_stock, lines 171-190: the command of the Analyze button; a
\* disabled ttk.Button does not invoke its command.
AnalyzeStock ==
    /\ analyze_btn = "normal"
    /\ Len(threads) < MaxRuns
    /\ analyze_btn' = StateOnStart
    /\ status_var' = "Fetching data..."
    /\ threads' = Append(threads, [pc |-> "start", how |-> "running"])
    /\ accesses' = accesses \cup {Access("analyze_btn", "main"),
                                  Access("status_var", "main")}
    /\ UNCHANGED <<ticker_var, sma_var, after_queue, results_text, chart>>
    /\ GuiFrame

At(t, pc) == t \in 1..Len(threads) /\ threads[t].pc = pc

Goto(t, pc, how) == threads' = [threads EXCEPT ![t] = [pc |-> pc, how |-> how]]

\* lines 211-225: read the inputs, validate, announce the fetch
PerformAnalysisRead(t) ==
    /\ At(t, "start")
    /\ accesses' = accesses \cup
          {Access("ticker_var", "background"), Access("sma_var", "background")}
          \cup (IF ParseInt(sma_var).raised = "no"
                   /\ StripUpper(ticker_var) # ""
                   /\ ParseInt(sma_var).val >= 1
                THEN {Access("status_var", "background")} ELSE {})
    /\ IF ParseInt(sma_var).raised # "no"
       THEN Goto(t, "show_error", "invalid_number") /\ UNCHANGED status_var
       ELSE IF StripUpper(ticker_var) = ""
       THEN Goto(t, "show_error", "empty_ticker") /\ UNCHANGED status_var
       ELSE IF ParseInt(sma_var).val < 1
       THEN Goto(t, "show_error", "bad_window") /\ UNCHANGED status_var
       ELSE /\ Goto(t, "fetch", "running")
            /\ status_var' = "Fetching data for ticker..."
    /\ UNCHANGED <<analyze_btn, ticker_var, sma_var, after_queue,
                   results_text, chart>>
    /\ GuiFrame

\* lines 226-236: the fetch and the test of its result
PerformAnalysisFetch(t) ==
    /\ At(t, "fetch")
    /\ \E r \in FetchOutcomes :
          IF r = "data"
          THEN /\ Goto(t, "calculate", "running")
               /\ status_var' = "Performing technical analysis..."
               /\ accesses' = accesses \cup {Access("status_var", "background")}
          ELSE /\ Goto(t, "show_error", "failed_fetch")
               /\ UNCHANGED <<status_var, accesses>>
    /\ UNCHANGED <<analyze_btn, ticker_var, sma_var, after_queue,
                   results_text, chart>>
    /\ GuiFrame

\* lines 238-246: the indicator calls, which touch no widget
PerformAnalysisCalculate(t) ==
    /\ At(t, "calculate")
    /\ Goto(t, "display", "running")
    /\ UNCHANGED <<analyze_btn, status_var, ticker_var, sma_var, after_queue,
                   results_text, chart, accesses>>
    /\ GuiFrame

\* _display_results, lines 266-388: builds the text and schedules
\* _update_results_text with root.after
DisplayResults(t) ==
    /\ At(t, "display")
    /\ after_queue' = Append(after_queue, t)
    /\ Goto(t, "chart", "running")
    /\ UNCHANGED <<analyze_btn, status_var, ticker_var, sma_var,
                   results_text, chart, accesses>>
    /\ GuiFrame

\* _update_chart, lines 403-528, called at line 253 by the thread itself,
\* then line 256; drawing may raise (any other exception).
UpdateChart(t) ==
    /\ At(t, "chart")
    /\ \/ /\ Goto(t, "finally", "success")
          /\ chart' = t
          /\ status_var' = "Analysis complete for ticker!"
          /\ accesses' = accesses \cup {Access("chart", "background"),
                                        Access("ticker_var", "background"),
                                        Access("status_var", "background")}
       \/ /\ Goto(t, "show_error", "other_exception")
          /\ accesses' = accesses \cup {Access("chart", "background")}
          /\ UNCHANGED <<chart, status_var>>
    /\ UNCHANGED <<analyze_btn, ticker_var, sma_var, after_queue, results_text>>
    /\ GuiFrame

\* messagebox.showerror, lines 217, 221, 229, 259, 261: returns when the
\* dialog is dismissed; then the function returns or the handler ends
ShowError(t) ==
    /\ At(t, "show_error")
    /\ Goto(t, "finally", threads[t].how)
    /\ accesses' = accesses \cup {Access("messagebox", "background")}
    /\ UNCHANGED <<analyze_btn, status_var, ticker_var, sma_var, after_queue,
                   results_text, chart>>
    /\ GuiFrame

\* lines 262-264
PerformAnalysisFinally(t) ==
    /\ At(t, "finally")
    /\ analyze_btn' = FinallyState(threads[t].how)
    /\ Goto(t, "done", threads[t].how)
    /\ accesses' = accesses \cup {Access("analyze_btn", "background")}
    /\ UNCHANGED <<status_var, ticker_var, sma_var, after_queue,
                   results_text, chart>>
    /\ GuiFrame

\* the main loop runs the next callback scheduled with root.after:
\* _update_results_text, lines 390-401
UpdateResultsText ==
    /\ after_queue # <<>>
    /\ results_text' = Head(after_queue)
    /\ after_queue' = Tail(after_queue)
    /\ accesses' = accesses \cup {Access("results_text", "main")}
    /\ UNCHANGED <<analyze_btn, status_var, ticker_var, sma_var, threads, chart>>
    /\ GuiFrame

ThreadStep(t) ==
    \/ PerformAnalysisRead(t)
    \/ PerformAnalysisFetch(t)
    \/ PerformAnalysisCalculate(t)
    \/ DisplayResults(t)
    \/ UpdateChart(t)
    \/ ShowError(t)
    \/ PerformAnalysisFinally(t)

NextGui ==
    \/ EditInputs
    \/ AnalyzeStock
    \/ \E t \in 1..MaxRuns : PerformAnalysisRead(t)
    \/ \E t \in 1..MaxRuns : PerformAnalysisFetch(t)
    \/ \E t \in 1..MaxRuns : PerformAnalysisCalculate(t)
    \/ \E t \in 1..MaxRuns : DisplayResults(t)
    \/ \E t \in 1..MaxRuns : UpdateChart(t)
    \/ \E t \in 1..MaxRuns : ShowError(t)
    \/ \E t \in 1..MaxRuns : PerformAnalysisFinally(t)
    \/ UpdateResultsText

\* Every started thread is scheduled by the operating system, the fetch
\* returns (data_loader.py catches time-outs and every other exception), and
\* an error dialog is eventually dismissed.
FairThreads == \A t \in 1..MaxRuns : WF_vars(ThreadStep(t))

Running == {t \in 1..Len(threads) : threads[t].pc # "done"}

Ended(how) == {t \in 1..Len(threads) : threads[t].pc = "done" /\ threads[t].how = how}

\* C23: starting an analysis disables the Analyze button; every way
\* _perform_analysis ends re-enables it; so a disabled button is eventually
\* enabled again, and at most one analysis runs at any time.
C23_ButtonReenabledOneAnalysisAtATime ==
    /\ [][Len(threads') > Len(threads) => analyze_btn' = "disabled"]_vars
    /\ [][\A t \in 1..Len(threads) :
             (threads[t].pc # "done" /\ threads'[t].pc = "done")
                => analyze_btn' = "normal"]_vars
    /\ [](Cardinality(Running) <= 1)
    /\ [](analyze_btn = "disabled" <=> Running # {})
    /\ ((analyze_btn = "disabled") ~> (analyze_btn = "normal"))

\* a first analysis ended on an invalid number, a second one succeeded, and
\* the button is enabled again
C23_Witness ==
    /\ Len(threads) = 2
    /\ threads[1] = [pc |-> "done", how |-> "invalid_number"]
    /\ threads[2] = [pc |-> "done", how |-> "success"]
    /\ analyze_btn = "normal"

\* C24: every access to a widget caused by the background thread is made
\* on the Tk main thread (scheduled with root.after); the background thread
\* itself touches no widget.
C24_WidgetsOnlyOnMainThread ==
    \A a \in accesses : a.thread = "main"


\* --------------------------------------- compare_logic.py : do_compare_logic
\* The loop over tickers, lines 73-160: one step per ticker, from the fetch
\* to the entry of all_charts.  A fetched frame is its Close column; the
\* Volume column and the dates (positions 1..n) carry no information here.

TickerNames == <<"AAPL", "MSFT", "GOOGL", "TSLA">>

TickerLists ==
    {SubSeq(TickerNames, 1, n) : n \in 0..MaxTickers} \cup {<<"AAPL", "AAPL">>}

\* line 88: window=14
RsiWindow == 14

\* the last two closes of a frame whose earlier closes are all 1000
LastMoves ==
    {<<658, 785>>, <<911, 1091>>, <<911, 1000>>, <<911, 911>>,
     <<1000, 1091>>, <<1000, 1000>>}

FlatThen(n, m) == [t \in 1..n |-> 1000] \o m

\* what fetch_stock_data can hand back: frames of 2 and of RsiWindow + 1 rows
CompareFrames == {FlatThen(n, m) : n \in {0, RsiWindow - 1}, m \in LastMoves}

Last(s) == s[Len(s)]

\* lines 91-97, on the value of line 89
StatusOf(rsi_current) ==
    IF rsi_current.k = "none" THEN "Neutral"
    ELSE IF FLt(rsi_current, Num(30)) THEN "Oversold"
    ELSE IF FGt(rsi_current, Num(70)) THEN "Overbought"
    ELSE "Neutral"

\* lines 101-102: returns.std() * 100 of the defined returns, None without
\* returns, NaN for a single return; the root is kept as the returns it is
\* taken of, and so is its rounding at line 124
VolatilityOf(c) ==
    LET returns == DropNa(pct_change(CloseOf(c)))
    IN  IF returns = <<>> THEN PyNone
        ELSE IF Len(returns) < 2 THEN NaN
        ELSE [k |-> "std100", n |-> 0, d |-> 1, of |-> returns]

RoundNullable(a) == IF a.k = "none" THEN a ELSE Round2(a)

\* lines 115-126
ResultData(ticker, c, w) ==
    LET sma == calculate_sma(c, w).s
        rsi == calculate_rsi(c, RsiWindow).s
        rsi_current == IF rsi # <<>> THEN Last(rsi) ELSE PyNone
        start_price == Num(c[1])
        current_price == Num(Last(c))
        total_change == FMul(FSub(FDiv(current_price, start_price), Num(1)),
                             Num(100))
    IN  [ticker |-> ticker,
         current_price |-> Round2(current_price),
         start_price |-> Round2(start_price),
         total_change |-> Round2(total_change),
         sma_window |-> w,
         sma_current |-> IF sma # <<>> THEN Round2(Last(sma)) ELSE PyNone,
         rsi_current |-> RoundNullable(rsi_current),
         rsi_status |-> StatusOf(rsi_current),
         volatility |-> VolatilityOf(c),
         max_profit |-> Num(calculate_max_profit(c))]

\* lines 136-144
RunHighlights(c) ==
    LET run_periods == identify_run_periods(c).run_periods
        long == SelectSeq(run_periods, LAMBDA run : run.length >= 2)
    IN  [k \in 1..Len(long) |->
            [start |-> long[k].start_date, end |-> long[k].end_date,
             direction |-> IF long[k].direction = 1 THEN "up" ELSE "down",
             length |-> long[k].length]]

NullIfNaN(a) == IF IsNaN(a) THEN PyNone ELSE a

\* lines 148-155
ChartData(c, w) ==
    LET sma == calculate_sma(c, w).s
        rsi == calculate_rsi(c, RsiWindow).s
    IN  [dates |-> [t \in 1..Len(c) |-> t],
         prices |-> [t \in 1..Len(c) |-> Round2(Num(c[t]))],
         sma |-> [t \in 1..Len(sma) |-> NullIfNaN(Round2(sma[t]))],
         rsi |-> [t \in 1..Len(rsi) |-> NullIfNaN(Round2(rsi[t]))],
         runs |-> RunHighlights(c)]

InitCompare ==
    /\ tickers \in TickerLists
    /\ sma_window \in {2, 10}
    /\ cmp_i = 1
    /\ all_results_list = <<>>
    /\ all_charts = <<>>
    /\ cmp_pc = "loop"
    /\ cmp_ret = Pending

IdleCompare ==
    /\ tickers = <<>>
    /\ sma_window = 10
    /\ cmp_i = 0
    /\ all_results_list = <<>>
    /\ all_charts = <<>>
    /\ cmp_pc = "idle"
    /\ cmp_ret = Pending

CompareFrame == UNCHANGED <<profitVars, scoreVars, chooseVars, indVars,
                            seriesVars, portfolioVars, pureVars, guiVars, configVars>>

\* lines 77-81: nothing fetched, the ticker is skipped
CompareSkip ==
    /\ cmp_pc = "loop"
    /\ cmp_i <= Len(tickers)
    /\ cmp_i' = cmp_i + 1
    /\ UNCHANGED <<tickers, sma_window, all_results_list, all_charts,
                   cmp_pc, cmp_ret>>
    /\ CompareFrame

\* lines 77-155 for a ticker whose data arrive
CompareTicker ==
    /\ cmp_pc = "loop"
    /\ cmp_i <= Len(tickers)
    /\ \E stock_data \in CompareFrames :
          /\ all_results_list' =
                Append(all_results_list,
                       ResultData(tickers[cmp_i], stock_data, sma_window))
          /\ all_charts' = SetItem(all_charts, tickers[cmp_i],
                                   ChartData(stock_data, sma_window))
    /\ cmp_i' = cmp_i + 1
    /\ UNCHANGED <<tickers, sma_window, cmp_pc, cmp_ret>>
    /\ CompareFrame

\* lines 157-158
CompareReturn ==
    /\ cmp_pc = "loop"
    /\ cmp_i > Len(tickers)
    /\ cmp_ret' = [st |-> "ok", results |-> all_results_list,
                   charts |-> all_charts]
    /\ cmp_pc' = "done"
    /\ UNCHANGED <<tickers, sma_window, cmp_i, all_results_list, all_charts>>
    /\ CompareFrame

NextCompare == CompareSkip \/ CompareTicker \/ CompareReturn

\* the +5 of component 5 of score_stock is granted to r
RangeBonus(r) == RangeTerm(Num(0), r) = Num(5)

StatusAgrees(r) ==
    /\ r.rsi_status = "Oversold" <=> FLt(r.rsi_current, Num(30))
    /\ r.rsi_status = "Overbought" <=> FGt(r.rsi_current, Num(70))
    /\ r.rsi_status = "Neutral" <=>
          (FLe(Num(30), r.rsi_current) /\ FLe(r.rsi_current, Num(70)))

\* C25: in every record returned by do_compare_logic the stored rsi_status
\* agrees with the stored rsi_current (Oversold iff below 30, Overbought iff
\* above 70, Neutral iff from 30 to 70), and score_stock grants the range
\* bonus to exactly the Neutral records.
C25_StatusAgreesWithStoredRsi ==
    cmp_pc = "done" =>
        \A k \in 1..Len(cmp_ret.results) :
            /\ StatusAgrees(cmp_ret.results[k])
            /\ RangeBonus(cmp_ret.results[k])
                  <=> cmp_ret.results[k].rsi_status = "Neutral"


\* the stocks in the opposite insertion order
Reversed(st) == [k \in 1..Len(st) |-> st[Len(st) + 1 - k]]

FirstLoaded == stocks[SetMin(LoadedItems)].val

LastLoaded == stocks[SetMax(LoadedItems)].val

\* C26: the series returned by calculate_portfolio_returns has exactly the
\* dates of the first loaded stock in insertion order; a date that only a
\* later stock has is not in it; and when the first and the last loaded
\* stock cover different dates, adding the stocks in the opposite order
\* gives a series with another index.
C26_IndexOfFirstLoadedStock ==
    (ReturnsCalled /\ LoadedItems # {}) =>
        /\ pa_out.ret.index =
              [j \in 1..Len(FirstLoaded.closes) |-> FirstLoaded.first + j - 1]
        /\ \A k \in LoadedItems :
              \A d \in DatesOf(stocks[k].val) \ DatesOf(FirstLoaded) :
                  d \notin IndexSet(pa_out.ret)
        /\ DatesOf(FirstLoaded) # DatesOf(LastLoaded) =>
              calculate_portfolio_returns(Reversed(stocks), weights).index
                 # pa_out.ret.index

\* the first stock has only date 2, the second one dates 1 and 2: date 1 is
\* not in the result, and is in the result of the opposite order
C26_Witness ==
    /\ ReturnsCalled
    /\ Len(stocks) = 2
    /\ LoadedItems = {1, 2}
    /\ DatesOf(stocks[1].val) = {2}
    /\ DatesOf(stocks[2].val) = {1, 2}
    /\ pa_out.ret.index = <<2>>
    /\ calculate_portfolio_returns(Reversed(stocks), weights).index = <<1, 2>>


TickersOf(dct) == {dct[k].ticker : k \in 1..Len(dct)}

\* C27: after any add_stock and load_portfolio_data calls stocks and weights
\* hold the same tickers; a ticker's weight is the one of its latest
\* add_stock, and its data are absent or the latest history fetched for it
\* since that add_stock (so add_stock discards the loaded data and a failed
\* fetch leaves them as they were).
C27_StocksAndWeightsInStep ==
    /\ TickersOf(stocks) = TickersOf(weights)
    /\ TickersOf(stocks) = TickersOf(pa_log)
    /\ \A k \in 1..Len(stocks) :
          /\ stocks[k].val = GetItem(pa_log, stocks[k].ticker).data
          /\ GetItem(weights, stocks[k].ticker)
                = GetItem(pa_log, stocks[k].ticker).weight

\* AAPL was loaded and then added again with another weight, which discarded
\* its data, while MSFT keeps the history loaded for it
C27_Witness ==
    /\ pa_pc = "idle"
    /\ Len(stocks) = 2
    /\ GetItem(weights, "AAPL") = F(1, 10)
    /\ ~GetItem(stocks, "AAPL").loaded
    /\ GetItem(stocks, "MSFT").loaded
    /\ GetItem(weights, "MSFT") = SampleWeights[2]


\* ================================================================
\* config.py : ConfigManager
\* ================================================================
\* A dict is a record of its keys.  The values of last_used_tickers and
\* window_size are references to a list and a dict object ("dl", "dw": the
\* objects created by the literal of lines 12-22; "cl", "cw": objects
\* created later); objs holds the current value of every object, so that
\* two dicts naming one object see each other's changes.  config_file is
\* the file: absent, unreadable as JSON, or a JSON object, whose lists and
\* dicts are values.  cfg_start is the list config started with, cfg_last
\* the latest update_last_used_tickers call and the list before it.

TickerPool == <<"AAPL", "TSLA", "MSFT", "NVDA", "GOOGL", "AMZN", "META">>

\* the tickers a caller passes
CallTickers == {TickerPool[k] : k \in 1..(MaxCalls + 3)}

\* line 61: [:5]
KeepTickers == 5

DefaultTickers == <<"AAPL", "TSLA", "MSFT">>

DefaultWindowSize == [width |-> 1000, height |-> 700]

\* lines 12-22
DefaultConfig ==
    [default_ticker |-> "AAPL", default_period |-> "6mo",
     default_sma_window |-> 10, theme |-> "light", auto_refresh |-> FALSE,
     refresh_interval |-> 300, chart_style |-> "default",
     last_used_tickers |-> "dl", window_size |-> "dw"]

AllKeys ==
    {"default_ticker", "default_period", "default_sma_window", "theme",
     "auto_refresh", "refresh_interval", "chart_style", "last_used_tickers",
     "window_size"}

\* json.dump(self.config): the dict with its objects written out
Dumped(cfg, o) ==
    [cfg EXCEPT !.last_used_tickers = o[cfg.last_used_tickers],
                !.window_size = o[cfg.window_size]]

JsonFile(keys, data) == [exists |-> TRUE, valid |-> TRUE, keys |-> keys, data |-> data]

FileWithTickers(l) ==
    JsonFile(AllKeys, [Dumped(DefaultConfig, [dl |-> l, dw |-> DefaultWindowSize])
                          EXCEPT !.theme = "dark"])

NoFile ==
    [exists |-> FALSE, valid |-> FALSE, keys |-> {},
     data |-> Dumped(DefaultConfig, [dl |-> <<>>, dw |-> DefaultWindowSize])]

\* the files a manager may find: none, one that is no JSON, one with the
\* theme only, and complete ones with lists of 0, 5 and 6 tickers and one
\* with a ticker twice
ConfigFiles ==
    {NoFile,
     [NoFile EXCEPT !.exists = TRUE],
     [JsonFile({"theme"}, NoFile.data) EXCEPT !.data.theme = "dark"],
     FileWithTickers(<<>>),
     FileWithTickers(SubSeq(TickerPool, 1, 5)),
     FileWithTickers(SubSeq(TickerPool, 1, 6)),
     FileWithTickers(<<"AAPL", "TSLA", "AAPL">>)}

Pick(key, file, d) == IF key \in file.keys THEN file.data ELSE d

\* load_config, lines 26-35: the dict it returns and the objects that dict
\* refers to.  {**default_config, **loaded_config} and default_config.copy()
\* copy the keys, not the objects: a key the file lacks refers to the object
\* of default_config.
load_config(file, dflt, o) ==
    IF file.exists /\ file.valid
    THEN LET f == file.data
         IN  [cfg |->
                [default_ticker |-> Pick("default_ticker", file, dflt).default_ticker,
                 default_period |-> Pick("default_period", file, dflt).default_period,
                 default_sma_window |->
                    Pick("default_sma_window", file, dflt).default_sma_window,
                 theme |-> Pick("theme", file, dflt).theme,
                 auto_refresh |-> Pick("auto_refresh", file, dflt).auto_refresh,
                 refresh_interval |->
                    Pick("refresh_interval", file, dflt).refresh_interval,
                 chart_style |-> Pick("chart_style", file, dflt).chart_style,
                 last_used_tickers |->
                    IF "last_used_tickers" \in file.keys
                    THEN "cl" ELSE dflt.last_used_tickers,
                 window_size |->
                    IF "window_size" \in file.keys THEN "cw" ELSE dflt.window_size],
              objs |->
                [o EXCEPT
                   !.cl = IF "last_used_tickers" \in file.keys
                          THEN f.last_used_tickers ELSE @,
                   !.cw = IF "window_size" \in file.keys
                          THEN f.window_size ELSE @]]
    ELSE [cfg |-> dflt, objs |-> o]

\* save_config, lines 37-44: the file after the call, for a write that
\* works and for one that raises IOError
SaveOutcomes(cfg, o, file) ==
    {[ret |-> TRUE, file |-> JsonFile(AllKeys, Dumped(cfg, o))],
     [ret |-> FALSE, file |-> file]}

ListRemoveNothing(l, x) == l

\* list.remove(x): the first x is taken out
ListRemove(l, x) ==
    LET k == CHOOSE j \in 1..Len(l) : l[j] = x /\ \A h \in 1..(j - 1) : l[h] # x
    IN  SubSeq(l, 1, k - 1) \o SubSeq(l, k + 1, Len(l))

InList(l, x) == \E j \in 1..Len(l) : l[j] = x

\* l[:n]
Take(l, n) == SubSeq(l, 1, IF Len(l) < n THEN Len(l) ELSE n)

InitConfig ==
    /\ config_file \in ConfigFiles
    /\ default_config = DefaultConfig
    /\ LET loaded == load_config(config_file, DefaultConfig,
                                 [dl |-> DefaultTickers, dw |-> DefaultWindowSize,
                                  cl |-> <<>>, cw |-> DefaultWindowSize])
       IN  /\ config = loaded.cfg
           /\ objs = loaded.objs
           /\ cfg_start = loaded.objs[loaded.cfg.last_used_tickers]
    /\ cfg_calls = 0
    /\ cfg_last = [called |-> FALSE, ticker |-> "", before |-> <<>>]
    /\ cfg_ret = Pending

IdleConfig ==
    /\ config_file = NoFile
    /\ default_config = DefaultConfig
    /\ config = DefaultConfig
    /\ objs = [dl |-> DefaultTickers, dw |-> DefaultWindowSize,
               cl |-> <<>>, cw |-> DefaultWindowSize]
    /\ cfg_start = DefaultTickers
    /\ cfg_calls = 0
    /\ cfg_last = [called |-> FALSE, ticker |-> "", before |-> <<>>]
    /\ cfg_ret = Pending

ConfigFrame == UNCHANGED <<profitVars, scoreVars, chooseVars, indVars,
                           seriesVars, portfolioVars, pureVars, guiVars,
                           compareVars>>

\* load_config called again: it returns a dict and assigns nothing
LoadConfig ==
    /\ cfg_calls < MaxCalls
    /\ cfg_calls' = cfg_calls + 1
    /\ cfg_ret' = [st |-> "ok", op |-> "load_config",
                   ret |-> Dumped(load_config(config_file, default_config, objs).cfg,
                                  load_config(config_file, default_config, objs).objs)]
    /\ UNCHANGED <<default_config, config, objs, config_file, cfg_start, cfg_last>>
    /\ ConfigFrame

SaveConfig ==
    /\ cfg_calls < MaxCalls
    /\ cfg_calls' = cfg_calls + 1
    /\ \E out \in SaveOutcomes(config, objs, config_file) :
          /\ config_file' = out.file
          /\ cfg_ret' = [st |-> "ok", op |-> "save_config", ret |-> out.ret]
    /\ UNCHANGED <<default_config, config, objs, cfg_start, cfg_last>>
    /\ ConfigFrame

\* set, lines 50-53, for the keys theme and default_sma_window
SetTheme ==
    /\ cfg_calls < MaxCalls
    /\ cfg_calls' = cfg_calls + 1
    /\ \E value \in {"light", "dark"} :
          config' = [config EXCEPT !.theme = value]
    /\ \E out \in SaveOutcomes(config', objs, config_file) :
          config_file' = out.file
    /\ cfg_ret' = [st |-> "ok", op |-> "set", ret |-> FALSE]
    /\ UNCHANGED <<default_config, objs, cfg_start, cfg_last>>
    /\ ConfigFrame

SetSmaWindow ==
    /\ cfg_calls < MaxCalls
    /\ cfg_calls' = cfg_calls + 1
    /\ \E value \in {10, 20} :
          config' = [config EXCEPT !.default_sma_window = value]
    /\ \E out \in SaveOutcomes(config', objs, config_file) :
          config_file' = out.file
    /\ cfg_ret' = [st |-> "ok", op |-> "set", ret |-> FALSE]
    /\ UNCHANGED <<default_config, objs, cfg_start, cfg_last>>
    /\ ConfigFrame

\* lines 57-59: remove and insert change the list object in place
TickersInPlace(l, ticker) ==
    <<ticker>> \o (IF InList(l, ticker) THEN ListRemove(l, ticker) ELSE l)

\* update_last_used_tickers, lines 55-62: the list object that config names
\* is changed in place, then config is given a new list, its first
\* KeepTickers entries
UpdateLastUsedTickers ==
    /\ cfg_calls < MaxCalls
    /\ cfg_calls' = cfg_calls + 1
    /\ \E ticker \in CallTickers :
          LET ref == config.last_used_tickers
              changed == TickersInPlace(objs[ref], ticker)
          IN  /\ objs' = [[objs EXCEPT ![ref] = changed]
                             EXCEPT !.cl = Take(changed, KeepTickers)]
              /\ cfg_last' = [called |-> TRUE, ticker |-> ticker,
                              before |-> objs[ref]]
    /\ config' = [config EXCEPT !.last_used_tickers = "cl"]
    /\ \E out \in SaveOutcomes(config', objs', config_file) :
          config_file' = out.file
    /\ cfg_ret' = [st |-> "ok", op |-> "update_last_used_tickers", ret |-> FALSE]
    /\ UNCHANGED <<default_config, cfg_start>>
    /\ ConfigFrame

NextConfig ==
    \/ LoadConfig
    \/ SaveConfig
    \/ SetTheme
    \/ SetSmaWindow
    \/ UpdateLastUsedTickers

\* ---- properties of ConfigManager
DupFree(l) == \A j, h \in 1..Len(l) : l[j] = l[h] => j = h

Without(l, x) == SelectSeq(l, LAMBDA y : y # x)

LastUsedTickers == objs[config.last_used_tickers]

\* C29: starting from a list without duplicates, after update_last_used_tickers
\* calls the list has no ticker twice, and after a call it has at most 5
\* entries, the ticker of the call first, and then the other tickers of the
\* list before the call in their order, as many as fit.
C29_LatestFirstNoDuplicateAtMostFive ==
    DupFree(cfg_start) =>
        /\ DupFree(LastUsedTickers)
        /\ cfg_last.called =>
              /\ Len(LastUsedTickers) <= 5
              /\ LastUsedTickers[1] = cfg_last.ticker
              /\ Tail(LastUsedTickers)
                    = Take(Without(cfg_last.before, cfg_last.ticker), 4)

\* a sixth ticker was used on a list of five: the oldest one is gone
C29_Witness ==
    /\ cfg_last.called
    /\ cfg_last.before = SubSeq(TickerPool, 1, 5)
    /\ cfg_last.ticker = "AMZN"
    /\ LastUsedTickers = <<"AMZN", "AAPL", "TSLA", "MSFT", "NVDA">>

\* C30: no operation changes default_config: it holds the values of lines
\* 12-22, with last_used_tickers [AAPL, TSLA, MSFT] and the window_size
\* record.
C30_DefaultConfigKeepsInitialValues ==
    Dumped(default_config, objs)
       = Dumped(DefaultConfig, [dl |-> DefaultTickers, dw |-> DefaultWindowSize])


\* ---------------------------------------------------------------- specs
InitSpecProfit ==
    InitProfit /\ IdleScore /\ IdleChoose /\ IdleInd /\ IdleSeries /\ IdlePortfolio
        /\ IdlePure
        /\ IdleGui
        /\ IdleCompare
        /\ IdleConfig

SpecProfit == InitSpecProfit /\ [][NextProfit]_vars

InitSpecScore ==
    IdleProfit /\ InitScore /\ IdleChoose /\ IdleInd /\ IdleSeries /\ IdlePortfolio
        /\ IdlePure
        /\ IdleGui
        /\ IdleCompare
        /\ IdleConfig

SpecScore == InitSpecScore /\ [][NextScore]_vars

InitSpecChoose ==
    IdleProfit /\ IdleScore /\ InitChoose /\ IdleInd /\ IdleSeries /\ IdlePortfolio
        /\ IdlePure
        /\ IdleGui
        /\ IdleCompare
        /\ IdleConfig

SpecChoose == InitSpecChoose /\ [][NextChoose]_vars

InitSpecInd ==
    IdleProfit /\ IdleScore /\ IdleChoose /\ InitInd /\ IdleSeries /\ IdlePortfolio
        /\ IdlePure
        /\ IdleGui
        /\ IdleCompare
        /\ IdleConfig

SpecInd == InitSpecInd /\ [][NextInd]_vars

InitSpecSeries ==
    IdleProfit /\ IdleScore /\ IdleChoose /\ IdleInd /\ InitSeries /\ IdlePortfolio
        /\ IdlePure
        /\ IdleGui
        /\ IdleCompare
        /\ IdleConfig

SpecSeries == InitSpecSeries /\ [][NextSeries]_vars

InitSpecPortfolio ==
    IdleProfit /\ IdleScore /\ IdleChoose /\ IdleInd /\ IdleSeries /\ InitPortfolio
        /\ IdlePure
        /\ IdleGui
        /\ IdleCompare
        /\ IdleConfig

SpecPortfolio == InitSpecPortfolio /\ [][NextPortfolio]_vars

SpecAnalyze == InitSpecPortfolio /\ [][NextAnalyze]_vars

InitSpecPure ==
    IdleProfit /\ IdleScore /\ IdleChoose /\ IdleInd /\ IdleSeries /\ IdlePortfolio
        /\ InitPure
        /\ IdleGui
        /\ IdleCompare
        /\ IdleConfig

SpecPure == InitSpecPure /\ [][NextPure]_vars

InitSpecGui ==
    IdleProfit /\ IdleScore /\ IdleChoose /\ IdleInd /\ IdleSeries /\ IdlePortfolio
        /\ IdlePure
        /\ InitGui
        /\ IdleCompare
        /\ IdleConfig

SpecGui == InitSpecGui /\ [][NextGui]_vars

SpecGuiFair == InitSpecGui /\ [][NextGui]_vars /\ FairThreads

InitSpecCompare ==
    IdleProfit /\ IdleScore /\ IdleChoose /\ IdleInd /\ IdleSeries /\ IdlePortfolio
        /\ IdlePure
        /\ IdleGui
        /\ InitCompare
        /\ IdleConfig

SpecCompare == InitSpecCompare /\ [][NextCompare]_vars

SpecStocks == InitSpecPortfolio /\ [][NextStocks]_vars

InitSpecConfig ==
    IdleProfit /\ IdleScore /\ IdleChoose /\ IdleInd /\ IdleSeries /\ IdlePortfolio
        /\ IdlePure
        /\ IdleGui
        /\ IdleCompare
        /\ InitConfig

SpecConfig == InitSpecConfig /\ [][NextConfig]_vars

====
